---- MODULE Spec2Model ----
(***************************************************************************)
(* A model of the CRL management core of the PKI secrets engine            *)
(* (package pki: crlBuilder, revokeCert, buildCRLs, getRevokedCertEntries, *)
(* augmentWithRevokedIssuers, buildCRL).                                   *)
(*                                                                         *)
(* Storage is a set of variables, one per key family.  Every operation of  *)
(* the builder is run by a task p in Procs and is cut into steps at the    *)
(* points where another task can observe or change shared state: lock      *)
(* acquisitions, atomics, and storage reads followed by storage writes.    *)
(* Certificates are abstract: a certificate is named by its raw bytes and  *)
(* CertInfo gives the fields the code reads from the parsed certificate.   *)
(* Revoked-certificate lists are modelled as sets (their order is decided  *)
(* by Go map iteration and is not observable in the stored index).         *)
(***************************************************************************)
EXTENDS Integers, Sequences, FiniteSets, TLC

\* ------------------------------------------------------------------ bounds
MaxTime == 3
MaxOps == 3
MaxEnv == 3
MaxFail == 1
MaxCRLIds == 3
MaxCfgWrites == 2

\* ---------------------------------------------------------------- universe
Procs == {"p1", "p2"}

IssuerIDs == {"i1", "i2", "i3"}
legacyBundleShimID == "legacy"
NoIssuer == ""

Serials == 1..6

\* The fields of a parsed x509 certificate the code reads, by raw bytes.
\* r1 is a self-signed root, r2 the same root re-issued (same key and subject),
\* r3 an intermediate signed by the root, l4 a leaf signed by the root,
\* l5 a leaf whose issuer is none of the issuers (an orphan), l6 a leaf signed
\* by the root that expires soon.
CertInfo ==
  [r1 |-> [serial |-> 1, subject |-> "S1", key |-> "K1", rawIssuer |-> "S1", signer |-> "K1", isCA |-> TRUE,  notAfter |-> 100],
   r2 |-> [serial |-> 2, subject |-> "S1", key |-> "K1", rawIssuer |-> "S1", signer |-> "K1", isCA |-> TRUE,  notAfter |-> 100],
   r3 |-> [serial |-> 3, subject |-> "S2", key |-> "K2", rawIssuer |-> "S1", signer |-> "K1", isCA |-> TRUE,  notAfter |-> 100],
   l4 |-> [serial |-> 4, subject |-> "L4", key |-> "K4", rawIssuer |-> "S1", signer |-> "K1", isCA |-> FALSE, notAfter |-> 100],
   l5 |-> [serial |-> 5, subject |-> "L5", key |-> "K5", rawIssuer |-> "S9", signer |-> "K9", isCA |-> FALSE, notAfter |-> 100],
   l6 |-> [serial |-> 6, subject |-> "L6", key |-> "K6", rawIssuer |-> "S1", signer |-> "K1", isCA |-> FALSE, notAfter |-> 3]]

\* certs/<serial>: the certificate bytes stored for each serial
CertStore == [s \in Serials |-> CASE s = 1 -> "r1" [] s = 2 -> "r2" [] s = 3 -> "r3" [] s = 4 -> "l4" [] s = 5 -> "l5" [] OTHER -> "l6"]

\* the certificate of each issuer (the legacy bundle holds the root r1)
IssuerCert == [i1 |-> "r1", i2 |-> "r2", i3 |-> "r3", legacy |-> "r1"]

NoEntry == [k |-> "none"]
NoBlob == [k |-> "none"]
NoCfg == [k |-> "none"]
NoLoc == [k |-> "none"]
NoCall == [op |-> "none"]
NoResult == [k |-> "none"]
NoProc == "none"

\* x509.Certificate.CheckSignatureFrom: the parent's public key verifies the
\* signature on the child (the names are not compared)
CheckSignatureFrom(child, parent) == CertInfo[child].signer = CertInfo[parent].key

serialFromCert(cert) == CertInfo[cert].serial

\* A serial number as text: the number n, written with the separator sep and
\* in upper- or lower-case hex
SerialText(n, sep, upper) == [n |-> n, sep |-> sep, upper |-> upper]
InputForms(n) == {SerialText(n, sep, upper) : sep \in {":", "-"}, upper \in BOOLEAN}
\* a comparison of the serial as the caller wrote it
colonSerialAsWritten(t) == t

\* line 379: strings.ReplaceAll(strings.ToLower(serial), "-", ":")
colonSerial(t) == SerialText(t.n, IF t.sep = "-" THEN ":" ELSE t.sep, FALSE)
\* fetchCertBySerial and normalizeSerial: the entry a serial addresses under
\* certs/ and revoked/, whatever its separator and case
normalizeSerial(t) == t.n

\* ------------------------------------------------------------------- maps
EmptyMap == [x \in {} |-> 0]
MapPut(m, k, v) == [x \in (DOMAIN m) \cup {k} |-> IF x = k THEN v ELSE m[x]]
MapDel(m, ks) == [x \in (DOMAIN m) \ ks |-> m[x]]
\* Go map lookup: the zero value when the key is absent
MapGet(m, k, zero) == IF k \in DOMAIN m THEN m[k] ELSE zero

\* ------------------------------------------------------------ configuration
\* crlConfig; ver is the version of the storage entry the value was read at
\* (history only, -1 for the value set at construction)
defaultCrlConfig == [Disable |-> FALSE, AutoRebuild |-> FALSE, Expiry |-> 2, Grace |-> 1]
WithVer(cfg, v) == [Disable |-> cfg.Disable, AutoRebuild |-> cfg.AutoRebuild,
                    Expiry |-> cfg.Expiry, Grace |-> cfg.Grace, ver |-> v]

VARIABLES
  \* storage
  issuers,        \* issuer id -> [listed, hasKey, usage, revoked]
  defaultIssuer,  \* config/issuers: the default issuer id, or NoIssuer
  certs,          \* the serials present under certs/
  revoked,        \* revoked/<serial>: serial -> revocationInfo
  crls,           \* crls/<crl-id>: crl id -> signed CRL
  legacyCRL,      \* legacyCRLPath
  localCRL,       \* the cluster-local CRL index
  stCfg,          \* config/crl, or NoCfg
  stCfgVer,       \* how many times config/crl was written (history)
  \* the mount
  legacy,         \* useLegacyBundleCaStorage()
  tainted,        \* System().Tainted()
  standby,        \* replication state is performance standby or DR secondary
  now,            \* time.Now()
  minted,         \* how many ids genCRLId has returned
  \* crlBuilder
  cbM,            \* cb.m: the task holding the build mutex
  forceRebuild,   \* cb.forceRebuild
  cbC,            \* cb.c: the task holding the config write lock
  dirty,          \* cb.dirty
  cbConfig,       \* cb.config
  \* tasks
  pc,             \* where each task is in its operation
  call,           \* the operation a task runs and its arguments
  loc,            \* locals of revokeCert and _doRebuild
  bld,            \* locals of buildCRLs
  cfgL,           \* the config a task fetched
  cfgRet,         \* where getConfigWithUpdate returns to
  result,         \* what the operation returned
  \* history
  lastNum,        \* crl id -> the Number last written to crls/<crl-id>
  lastPut,        \* the last write to crls/: [id, num, tog]
  markVer,        \* stCfgVer when markConfigDirty last returned, or -1
  startMark,      \* per task: markVer when its getConfigWithUpdate started
  raised,         \* a raise of the force flag took effect since the last clear
  owed,           \* a raise took effect while a build was running, and no
                  \* rebuildIfForced has started a build since
  prev,           \* what the last rebuild() call left, while nothing changed since
  pass,           \* per task: the revocations stored when its checkForAutoRebuild began,
                  \* kept until the call that follows it has returned
  \* budgets
  opsLeft, envLeft, failLeft

issuerVars == <<issuers, defaultIssuer, certs>>
crlVars == <<crls, legacyCRL, localCRL>>
cfgStore == <<stCfg, stCfgVer>>
storageVars == <<issuerVars, revoked, crlVars, cfgStore>>
mountVars == <<legacy, tainted, standby, now, minted>>
cbVars == <<cbM, forceRebuild, cbC, dirty, cbConfig>>
taskVars == <<pc, call, loc, bld, cfgL, cfgRet, result>>
numHist == <<lastNum, lastPut>>
flagHist == <<raised, owed>>
histVars == <<numHist, markVer, startMark, flagHist, prev, pass>>
budgetVars == <<opsLeft, envLeft, failLeft>>
vars == <<storageVars, mountVars, cbVars, taskVars, histVars, budgetVars>>

\* ------------------------------------------------------------- issuer view
\* fetchCertBundleByIssuerId: the issuer entry of a listed issuer.  The legacy
\* shim resolves to the legacy bundle, which has a key, every usage and is
\* never revoked.
IssuerEntry(id) ==
  IF id = legacyBundleShimID
  THEN [KeyID |-> CertInfo[IssuerCert[id]].key, usage |-> TRUE, Revoked |-> 0]
  ELSE [KeyID |-> IF issuers[id].hasKey THEN CertInfo[IssuerCert[id]].key ELSE "",
        usage |-> issuers[id].usage, Revoked |-> issuers[id].revoked]

\* listIssuers, or the legacy shim
RECURSIVE FilterSeq(_, _)
FilterSeq(s, S) ==
  IF s = << >> THEN << >>
  ELSE IF Head(s) \in S THEN <<Head(s)>> \o FilterSeq(Tail(s), S) ELSE FilterSeq(Tail(s), S)

Range(s) == {s[i] : i \in DOMAIN s}

\* listIssuers returns the storage keys in list order
listIssuers == FilterSeq(<<"i1", "i2", "i3">>, {i \in IssuerIDs : issuers[i].listed})

\* a build that lists the issuers of the storage whatever the layout
ListedIssuersNoShim == listIssuers

\* lines 343-352 and 553-569: listIssuers, or the legacy shim alone
ListedIssuers == IF legacy THEN <<legacyBundleShimID>> ELSE listIssuers

\* ------------------------------------------------- issuer partitioning (4.6.2)
\* the issuers buildCRLs keeps: a non-empty KeyID and the CRLSigning usage
Eligible(L) == {i \in Range(L) : IssuerEntry(i).KeyID # "" /\ IssuerEntry(i).usage}

ClassKey(i) == <<IssuerEntry(i).KeyID, CertInfo[IssuerCert[i]].subject>>

\* keySubjectIssuersMap, as the set of its cells; each cell lists its members
\* in listing order
keySubjectIssuersMap(L) ==
  {FilterSeq(L, {j \in Eligible(L) : ClassKey(j) = ClassKey(i)}) : i \in Eligible(L)}

\* ------------------------------------------- revoked certificates (4.6.3)
revokedSerials(store) == {s \in Serials : store[s] # NoEntry}

\* the pkix.RevokedCertificate of an entry; raw records which certificate the
\* entry was made for (history)
newRevCert(e) ==
  [serial |-> serialFromCert(e.bytes),
   time |-> IF e.utc # 0 THEN e.utc ELSE e.time,
   raw |-> e.bytes]

\* the revoked certificate is the certificate of one of the issuers
revokedCertIsIssuer(e, ids) ==
  \E i \in ids : /\ serialFromCert(IssuerCert[i]) = serialFromCert(e.bytes)
                 /\ IssuerCert[i] = e.bytes

\* the entry names an issuer that exists
HasKnownIssuer(e, ids) == e.issuer # NoIssuer /\ e.issuer \in ids

\* an association that takes any issuer, whatever its subject and key
AssocCandidatesAny(cert, ids) == ids

\* associateRevokedCertWithIsssuer: the issuers it may pick (it ranges over a
\* Go map, so any matching issuer can be the one found)
AssocCandidates(cert, ids) ==
  {i \in ids : /\ CertInfo[cert].rawIssuer = CertInfo[IssuerCert[i]].subject
               /\ CheckSignatureFrom(cert, IssuerCert[i])}

NeedAssoc(store, ids) ==
  {s \in revokedSerials(store) :
     ~revokedCertIsIssuer(store[s], ids) /\ ~HasKnownIssuer(store[s], ids)}

Assignable(store, ids) == {s \in NeedAssoc(store, ids) : AssocCandidates(store[s].bytes, ids) # {}}

\* every way associateRevokedCertWithIsssuer can resolve the entries
AssocChoices(store, ids) ==
  {ch \in [Assignable(store, ids) -> ids] :
     \A s \in Assignable(store, ids) : ch[s] \in AssocCandidates(store[s].bytes, ids)}

\* where getRevokedCertEntries routes serial s: an issuer id, "unassigned" or "skip"
RouteOf(store, ids, ch, s) ==
  IF revokedCertIsIssuer(store[s], ids) THEN "skip"
  ELSE IF HasKnownIssuer(store[s], ids) THEN store[s].issuer
  ELSE IF s \in DOMAIN ch THEN ch[s]
  ELSE "unassigned"

getRevokedCertEntries(store, ids, ch) ==
  [unassigned |-> {newRevCert(store[s]) : s \in {t \in revokedSerials(store) : RouteOf(store, ids, ch, t) = "unassigned"}},
   revokedCertsMap |-> [i \in ids |-> {newRevCert(store[s]) : s \in {t \in revokedSerials(store) : RouteOf(store, ids, ch, t) = i}}],
   store |-> [s \in Serials |-> IF s \in DOMAIN ch THEN [store[s] EXCEPT !.issuer = ch[s]] ELSE store[s]]]

\* ------------------------------------------- revoked issuers (4.6.4)
augmentWithRevokedIssuers(ids, revokedCertsMap) ==
  [other \in ids |->
     revokedCertsMap[other] \cup
       {[serial |-> serialFromCert(IssuerCert[our]), time |-> IssuerEntry(our).Revoked, raw |-> IssuerCert[our]] :
          our \in {o \in ids : /\ IssuerEntry(o).Revoked # 0
                               /\ o # other
                               /\ CheckSignatureFrom(IssuerCert[o], IssuerCert[other])}}]

\* ------------------------------------------- per-class construction (4.6.5)
\* a resolution that takes the CRL id of any issuer of the index
ClassCRLIdsOfAnyIssuer(cls, idx) == {idx.IssuerIDCRLMap[m] : m \in DOMAIN idx.IssuerIDCRLMap}

\* the CRL ids the members of a class already map to
ClassCRLIds(cls, idx) ==
  {idx.IssuerIDCRLMap[m] : m \in {x \in Range(cls) : x \in DOMAIN idx.IssuerIDCRLMap}}

Representative(cls, dflt) == IF dflt \in Range(cls) THEN dflt ELSE cls[1]

\* a class loop that adds the pool of unassigned certificates to every class
ClassRevokedEveryClass(cls, dflt, unassigned, revokedCertsMap) ==
  unassigned \cup UNION {revokedCertsMap[m] : m \in Range(cls)}

\* the class loop without the pool of unassigned certificates
ClassRevokedOwnOnly(cls, dflt, unassigned, revokedCertsMap) ==
  UNION {revokedCertsMap[m] : m \in Range(cls)}

\* lines 641-656: the revoked certificates of a class
ClassRevoked(cls, dflt, unassigned, revokedCertsMap) ==
  (IF dflt \in Range(cls) THEN unassigned ELSE {}) \cup UNION {revokedCertsMap[m] : m \in Range(cls)}

\* an index whose CRL number stays as it was
IndexAfterClassSameNumber(idx, cls, id, fresh) ==
  [IssuerIDCRLMap |-> [x \in (DOMAIN idx.IssuerIDCRLMap) \cup Range(cls) |->
                         IF x \in Range(cls) THEN id ELSE idx.IssuerIDCRLMap[x]],
   CRLNumberMap |-> IF fresh THEN MapPut(idx.CRLNumberMap, id, 1) ELSE idx.CRLNumberMap,
   CRLExpirationMap |-> idx.CRLExpirationMap]

\* lines 668-682: the index after the class resolved to crl id `id`
\* (fresh says the id was minted for it)
IndexAfterClass(idx, cls, id, fresh) ==
  LET nums == IF fresh THEN MapPut(idx.CRLNumberMap, id, 1) ELSE idx.CRLNumberMap
      crlNumber == MapGet(nums, id, 0)
  IN [IssuerIDCRLMap |-> [x \in (DOMAIN idx.IssuerIDCRLMap) \cup Range(cls) |->
                            IF x \in Range(cls) THEN id ELSE idx.IssuerIDCRLMap[x]],
      CRLNumberMap |-> MapPut(nums, id, crlNumber + 1),
      CRLExpirationMap |-> idx.CRLExpirationMap]

\* the number the CRL of the class is signed with: the pre-increment value
\* an allocation that signs every CRL with the number 1
CRLNumberAlwaysOne(idx, id, fresh) == 1

CRLNumberFor(idx, id, fresh) == IF fresh THEN 1 ELSE MapGet(idx.CRLNumberMap, id, 0)

\* a buildCRL that lists the revoked certificates of a disabled CRL
SignedCRLAlwaysListed(cfg, forceNew, rep, revokedCerts, crlNumber, t) ==
  [number |-> crlNumber, revoked |-> revokedCerts, signer |-> rep, nextUpdate |-> t + cfg.Expiry]

\* a buildCRL that signs an empty CRL whenever forceNew is set
SignedCRLEmptyWhenForced(cfg, forceNew, rep, revokedCerts, crlNumber, t) ==
  [number |-> crlNumber,
   revoked |-> IF cfg.Disable \/ forceNew THEN {} ELSE revokedCerts,
   signer |-> rep,
   nextUpdate |-> t + cfg.Expiry]

\* buildCRL: the signed CRL
SignedCRL(cfg, forceNew, rep, revokedCerts, crlNumber, t) ==
  [number |-> crlNumber,
   revoked |-> IF cfg.Disable THEN {} ELSE revokedCerts,
   signer |-> rep,
   nextUpdate |-> t + cfg.Expiry]

\* ------------------------------------------- index garbage collection (4.6.6)
\* a build that keeps the dangling references
IndexAfterGCKeepAll(idx, L) == idx

IndexAfterGC(idx, L) ==
  [IssuerIDCRLMap |-> MapDel(idx.IssuerIDCRLMap, (DOMAIN idx.IssuerIDCRLMap) \ Range(L)),
   CRLNumberMap |-> idx.CRLNumberMap,
   CRLExpirationMap |-> idx.CRLExpirationMap]

\* the crl ids of the number map no remaining issuer refers to
UnreferencedCRLs(idx) ==
  {id \in DOMAIN idx.CRLNumberMap : \A x \in DOMAIN idx.IssuerIDCRLMap : idx.IssuerIDCRLMap[x] # id}

EmptyIndex == [IssuerIDCRLMap |-> EmptyMap, CRLNumberMap |-> EmptyMap, CRLExpirationMap |-> EmptyMap]

\* ======================================================================
\* Tasks
\* ======================================================================
CfgErr == [k |-> "err"]
OK == [k |-> "ok", built |-> FALSE]
Built == [k |-> "ok", built |-> TRUE]
Err(kind) == [k |-> "err", kind |-> kind]
ErrorResponse == [k |-> "errresp"]
NilResponse == [k |-> "nil"]
WarnResponse == [k |-> "warn"]

\* lines 491-499: the response of a revocation; ran and built record whether
\* rebuild was called and whether buildCRLs went through (history)
RevokeResponse(revInfo, ran, built) ==
  [k |-> "resp", revocation_time |-> revInfo.time, rfc3339 |-> revInfo.utc # 0,
   ran |-> ran, built |-> built]

IsSuccess(res) == res.k = "ok" \/ res.k = "resp"

\* a storage call may fail (an I/O error or a cancelled context) while failures remain
FailSet == IF failLeft > 0 THEN {FALSE, TRUE} ELSE {FALSE}
Spend(f) == failLeft' = IF f THEN failLeft - 1 ELSE failLeft

NoPrev == [k |-> "none"]
NoPass == [on |-> FALSE, seen |-> {}]
\* the revoked set of every stored CRL, and the issuer of every revocation entry
RevokedSets(c) == [id \in DOMAIN c |-> c[id].revoked]
Routes(r) == [s \in Serials |-> IF r[s] = NoEntry THEN "absent" ELSE r[s].issuer]

\* a revocation, an issuer change or a config change: the calls that run now
\* and the last rebuild() no longer describe the unchanged store (history)
Touched(l) == [q \in Procs |-> IF l[q] = NoLoc THEN NoLoc ELSE [l[q] EXCEPT !.stale = TRUE]]

\* a task takes up an operation
Begin(p, c) ==
  /\ pc[p] = "idle"
  /\ opsLeft > 0
  /\ opsLeft' = opsLeft - 1
  /\ call' = [call EXCEPT ![p] = c]

\* the operation returns res
Done(p, res) ==
  /\ pc' = [pc EXCEPT ![p] = "done"]
  /\ result' = [result EXCEPT ![p] = res]

\* the caller has the result; the task is free again
Return(p) ==
  /\ pc[p] = "done"
  /\ pc' = [pc EXCEPT ![p] = "idle"]
  /\ call' = [call EXCEPT ![p] = NoCall]
  /\ loc' = [loc EXCEPT ![p] = NoLoc]
  /\ bld' = [bld EXCEPT ![p] = NoLoc]
  /\ cfgL' = [cfgL EXCEPT ![p] = NoCfg]
  /\ cfgRet' = [cfgRet EXCEPT ![p] = "none"]
  /\ result' = [result EXCEPT ![p] = NoResult]
  /\ startMark' = [startMark EXCEPT ![p] = -1]
  /\ pass' = IF call[p].op = "checkForAutoRebuild" /\ result[p] = OK
             THEN pass ELSE [pass EXCEPT ![p] = NoPass]
  /\ UNCHANGED <<storageVars, mountVars, cbVars, numHist, markVer, flagHist, prev, budgetVars>>

\* atomic.CompareAndSwapUint32(&cb.forceRebuild, old, new)
CompareAndSwap(cur, old, new) == IF cur = old THEN new ELSE cur

\* ------------------------------------------------------- crlBuilder config
markConfigDirty ==
  /\ dirty' = TRUE
  /\ markVer' = stCfgVer
  /\ loc' = Touched(loc)
  /\ prev' = NoPrev
  /\ UNCHANGED <<storageVars, mountVars, cbM, forceRebuild, cbC, cbConfig, pc, call, bld, cfgL, cfgRet,
                 result, numHist, startMark, flagHist, pass, budgetVars>>

\* getConfigWithUpdate is entered; it will continue the caller at ret
EnterConfig(p, ret) ==
  /\ pc' = [pc EXCEPT ![p] = "cfg_check"]
  /\ cfgRet' = [cfgRet EXCEPT ![p] = ret]
  /\ startMark' = [startMark EXCEPT ![p] = markVer]

\* reloadConfigIfRequired, line 164: the unlocked read of the dirty flag
ReloadCheck(p) ==
  /\ pc[p] = "cfg_check"
  /\ pc' = [pc EXCEPT ![p] = IF dirty THEN "cfg_lock" ELSE "cfg_copy"]
  /\ UNCHANGED <<storageVars, mountVars, cbVars, call, loc, bld, cfgL, cfgRet, result, histVars, budgetVars>>

\* lines 166-173: the write lock and the second read of the dirty flag
ReloadLock(p) ==
  /\ pc[p] = "cfg_lock"
  /\ cbC = NoProc
  /\ IF dirty
     THEN cbC' = p /\ pc' = [pc EXCEPT ![p] = "cfg_fetch"]
     ELSE cbC' = cbC /\ pc' = [pc EXCEPT ![p] = "cfg_copy"]
  /\ UNCHANGED <<storageVars, mountVars, cbM, forceRebuild, dirty, cbConfig, call, loc, bld, cfgL, cfgRet,
                 result, histVars, budgetVars>>

\* the config getRevocationConfig returns: the stored one, or the default for nil
FetchedConfig == WithVer(IF stCfg = NoCfg THEN defaultCrlConfig ELSE stCfg, stCfgVer)

\* line 175: sc.getRevocationConfig(); on an error the lock is released and
\* getConfigWithUpdate returns the error to its caller
ReloadFetch(p) ==
  /\ pc[p] = "cfg_fetch"
  /\ \E f \in FailSet :
       /\ Spend(f)
       /\ IF f
          THEN /\ cbC' = NoProc
               /\ cfgL' = [cfgL EXCEPT ![p] = CfgErr]
               /\ pc' = [pc EXCEPT ![p] = cfgRet[p]]
          ELSE /\ cbC' = cbC
               /\ cfgL' = [cfgL EXCEPT ![p] = FetchedConfig]
               /\ pc' = [pc EXCEPT ![p] = "cfg_assign"]
  /\ UNCHANGED <<storageVars, mountVars, cbM, forceRebuild, dirty, cbConfig, call, loc, bld, cfgRet,
                 result, histVars, opsLeft, envLeft>>

\* lines 181-188: what reloadConfigIfRequired leaves in cb.config and cb.dirty
ReloadedConfig(fetched) == fetched
DirtyAfterReload == FALSE

\* lines 181-188 and the deferred Unlock: assign the config, unset dirty
ReloadAssign(p) ==
  /\ pc[p] = "cfg_assign"
  /\ cbConfig' = ReloadedConfig(cfgL[p])
  /\ dirty' = DirtyAfterReload
  /\ cbC' = NoProc
  /\ pc' = [pc EXCEPT ![p] = "cfg_copy"]
  /\ UNCHANGED <<storageVars, mountVars, cbM, forceRebuild, call, loc, bld, cfgL, cfgRet, result,
                 histVars, budgetVars>>

\* lines 201-205: the copy under the read lock
ConfigCopy(p) ==
  /\ pc[p] = "cfg_copy"
  /\ cbC = NoProc
  /\ cfgL' = [cfgL EXCEPT ![p] = cbConfig]
  /\ pc' = [pc EXCEPT ![p] = cfgRet[p]]
  /\ UNCHANGED <<storageVars, mountVars, cbVars, call, loc, bld, cfgRet, result, histVars, budgetVars>>

\* a caller of getConfigWithUpdate (a read path)
getConfigWithUpdate(p) ==
  /\ Begin(p, [op |-> "getConfigWithUpdate"])
  /\ EnterConfig(p, "gc_ret")
  /\ UNCHANGED <<storageVars, mountVars, cbVars, loc, bld, cfgL, result,
                 numHist, markVer, pass, flagHist, prev, envLeft, failLeft>>

getConfigReturn(p) ==
  /\ pc[p] = "gc_ret"
  /\ Done(p, IF cfgL[p] = CfgErr THEN Err("internal") ELSE OK)
  /\ UNCHANGED <<storageVars, mountVars, cbVars, call, loc, bld, cfgL, cfgRet, histVars, budgetVars>>

\* ------------------------------------------------------ force-rebuild flag
\* a build is running and has passed its reset of the flag
BuildRunning == cbM # NoProc /\ pc[cbM] # "db_clear"

\* a node that takes itself to be active whatever the replication state
OnActiveNodeAlways(sb) == TRUE

\* lines 292-293: neither a performance standby nor a DR secondary
OnActiveNode(sb) == ~sb

\* lines 292-300
requestRebuildIfActiveNode ==
  /\ forceRebuild' = IF OnActiveNode(standby) THEN CompareAndSwap(forceRebuild, 0, 1) ELSE forceRebuild
  /\ raised' = IF OnActiveNode(standby) THEN TRUE ELSE raised
  /\ owed' = IF OnActiveNode(standby) /\ BuildRunning THEN TRUE ELSE owed
  /\ UNCHANGED <<storageVars, mountVars, cbM, cbC, dirty, cbConfig, taskVars,
                 numHist, markVer, pass, startMark, prev, budgetVars>>

\* the revocations stored by calls of revokeCert that have returned (history)
RevokedAndReturned ==
  {s \in revokedSerials(revoked) :
     \A q \in Procs : (call[q].op = "revokeCert" /\ call[q].serial = s) => pc[q] = "done"}

checkForAutoRebuild(p) ==
  /\ Begin(p, [op |-> "checkForAutoRebuild"])
  /\ EnterConfig(p, "ca_body")
  /\ pass' = [pass EXCEPT ![p] = [on |-> TRUE, seen |-> RevokedAndReturned]]
  /\ UNCHANGED <<storageVars, mountVars, cbVars, loc, bld, cfgL, result,
                 numHist, markVer, flagHist, prev, envLeft, failLeft>>

\* a grace period taken as configured, without the fallback
GracePeriodAsConfigured(cfg) == cfg.Grace

\* lines 249-260: the grace period, or the default when it does not parse
GracePeriod(cfg) == IF cfg.Grace < 0 THEN defaultCrlConfig.Grace ELSE cfg.Grace

\* a check that never finds a CRL about to expire
NeedsAutoRebuildNever(idx, cfg, t) == FALSE

\* lines 233-267: the cluster-local index asks for a rebuild
NeedsAutoRebuild(idx, cfg, t) ==
  \/ DOMAIN idx.CRLExpirationMap = {}
  \/ \E id \in DOMAIN idx.CRLExpirationMap :
       idx.CRLExpirationMap[id] = 0 \/ t > idx.CRLExpirationMap[id] - GracePeriod(cfg)

\* lines 214-269
checkForAutoRebuildBody(p) ==
  /\ pc[p] = "ca_body"
  /\ IF cfgL[p] = CfgErr
     THEN Done(p, Err("internal")) /\ UNCHANGED <<forceRebuild, flagHist, failLeft>>
     ELSE IF cfgL[p].Disable \/ ~cfgL[p].AutoRebuild \/ forceRebuild = 1
     THEN Done(p, OK) /\ UNCHANGED <<forceRebuild, flagHist, failLeft>>
     ELSE \E f \in FailSet :
            /\ Spend(f)
            /\ IF f
               THEN Done(p, Err("internal")) /\ UNCHANGED <<forceRebuild, flagHist>>
               ELSE /\ Done(p, OK)
                    /\ IF NeedsAutoRebuild(localCRL, cfgL[p], now)
                       THEN /\ forceRebuild' = CompareAndSwap(forceRebuild, 0, 1)
                            /\ raised' = TRUE
                            /\ owed' = IF BuildRunning THEN TRUE ELSE owed
                       ELSE UNCHANGED <<forceRebuild, flagHist>>
  /\ UNCHANGED <<storageVars, mountVars, cbM, cbC, dirty, cbConfig, call, loc, bld, cfgL, cfgRet,
                 numHist, markVer, pass, startMark, prev, opsLeft, envLeft>>

\* ------------------------------------------------------------- _doRebuild
\* the locals of revokeCert and _doRebuild; stale records that a revocation,
\* an issuer change or a config change happened while the call ran (history)
MkLoc(revInfo, alreadyRevoked, forceNew, ignoreForceFlag) ==
  [k |-> "loc", revInfo |-> revInfo, alreadyRevoked |-> alreadyRevoked,
   forceNew |-> forceNew, ignoreForceFlag |-> ignoreForceFlag,
   forceBuildFlag |-> 0, myForceNew |-> FALSE, stale |-> FALSE]

\* lines 480-499: what revokeCert makes of the result of rebuild
OpResult(p, res) ==
  IF call[p].op = "revokeCert"
  THEN IF res.k = "ok" THEN RevokeResponse(loc[p].revInfo, TRUE, res.built)
       ELSE IF res.kind = "user" THEN ErrorResponse ELSE res
  ELSE res

\* what a finished call leaves to compare the next rebuild() with (history)
PrevAfter(p, res, crlsAfter, revokedAfter) ==
  IF call[p].op = "rebuild"
  THEN IF res.k = "ok" /\ ~loc[p].stale
       THEN [k |-> IF res.built THEN "built" ELSE "skipped",
             sets |-> RevokedSets(crlsAfter), routes |-> Routes(revokedAfter)]
       ELSE NoPrev
  ELSE IF res.k = "ok" THEN prev ELSE NoPrev

\* line 316
myForceNew(forceBuildFlag, forceNew) == forceBuildFlag = 1 \/ forceNew
\* a _doRebuild that builds whatever the flag says
ShouldBuildAlways(forceBuildFlag, ignoreForceFlag) == TRUE

\* line 308
ShouldBuild(forceBuildFlag, ignoreForceFlag) == forceBuildFlag = 1 \/ ignoreForceFlag
\* a build that starts without resetting the flag
FlagKeptAtBuildStart(cur) == cur

\* line 313: the flag once the build starts
FlagAtBuildStart(cur) == CompareAndSwap(cur, 1, 0)
\* a build that resets the flag once it has completed
FlagClearedAtBuildEnd(cur) == 0

\* line 317-320: _doRebuild does not touch the flag once buildCRLs has returned
FlagAtBuildEnd(cur) == cur

\* _doRebuild returns res: the deferred Unlock of line 305
RebuildReturn(p, res, crlsAfter, revokedAfter) ==
  /\ cbM' = NoProc
  /\ forceRebuild' = FlagAtBuildEnd(forceRebuild)
  /\ prev' = PrevAfter(p, res, crlsAfter, revokedAfter)
  /\ Done(p, OpResult(p, res))

\* lines 274-280
rebuildIfForced(p) ==
  /\ Begin(p, [op |-> "rebuildIfForced"])
  /\ IF forceRebuild = 1
     THEN /\ pc' = [pc EXCEPT ![p] = "db_lock"]
          /\ loc' = [loc EXCEPT ![p] = MkLoc(NoEntry, FALSE, TRUE, FALSE)]
          /\ UNCHANGED result
     ELSE /\ Done(p, OK)
          /\ UNCHANGED loc
  /\ UNCHANGED <<storageVars, mountVars, cbVars, bld, cfgL, cfgRet, histVars, envLeft, failLeft>>

\* lines 283-285
rebuild(p, forceNew) ==
  /\ Begin(p, [op |-> "rebuild", forceNew |-> forceNew])
  /\ pc' = [pc EXCEPT ![p] = "db_lock"]
  /\ loc' = [loc EXCEPT ![p] = MkLoc(NoEntry, FALSE, forceNew, TRUE)]
  /\ UNCHANGED <<storageVars, mountVars, cbVars, bld, cfgL, cfgRet, result, histVars, envLeft, failLeft>>

\* a mutex that every task can take at any time
LockFreeAlways(m) == TRUE

\* line 304: cb.m.Lock() goes through when no task holds the mutex
LockFree(m) == m = NoProc

\* lines 304-307: cb.m.Lock() and the second load of the flag
doRebuildLock(p) ==
  /\ pc[p] = "db_lock"
  /\ LockFree(cbM)
  /\ cbM' = p
  /\ loc' = [loc EXCEPT ![p].forceBuildFlag = forceRebuild]
  /\ pc' = [pc EXCEPT ![p] = "db_clear"]
  /\ UNCHANGED <<storageVars, mountVars, forceRebuild, cbC, dirty, cbConfig, call, bld, cfgL, cfgRet,
                 result, histVars, budgetVars>>

\* lines 308-317: reset the flag, then enter buildCRLs, whose first step is
\* getConfigWithUpdate (line 536); or return nil without a build
doRebuildClear(p) ==
  /\ pc[p] = "db_clear"
  /\ IF ShouldBuild(loc[p].forceBuildFlag, loc[p].ignoreForceFlag)
     THEN /\ forceRebuild' = FlagAtBuildStart(forceRebuild)
          /\ raised' = FALSE
          /\ owed' = IF call[p].op = "rebuildIfForced" THEN FALSE ELSE owed
          /\ loc' = [loc EXCEPT ![p].myForceNew = myForceNew(loc[p].forceBuildFlag, loc[p].forceNew)]
          /\ EnterConfig(p, "b_read")
          /\ UNCHANGED <<cbM, result, prev>>
     ELSE /\ RebuildReturn(p, OK, crls, revoked)
          /\ UNCHANGED <<flagHist, loc, cfgRet, startMark>>
  /\ UNCHANGED <<storageVars, mountVars, cbC, dirty, cbConfig, call, bld, cfgL,
                 numHist, markVer, pass, budgetVars>>

\* ---------------------------------------------------------------- buildCRLs
\* a build that never returns early
SkipBuildNever(cfg, forceNew) == FALSE

\* lines 541-551: the early return of a disabled CRL
SkipBuild(cfg, forceNew) == cfg.Disable /\ ~forceNew

\* lines 537-631: the config check, the issuers, the default issuer, the
\* index and the revoked certificates
buildRead(p) ==
  /\ pc[p] = "b_read"
  /\ IF cfgL[p] = CfgErr
     THEN /\ RebuildReturn(p, Err("internal"), crls, revoked)
          /\ UNCHANGED <<revoked, bld, failLeft>>
     ELSE IF SkipBuild(cfgL[p], loc[p].myForceNew)
     THEN /\ RebuildReturn(p, OK, crls, revoked)
          /\ UNCHANGED <<revoked, bld, failLeft>>
     ELSE \E f \in FailSet :
            /\ Spend(f)
            /\ IF f
               THEN /\ RebuildReturn(p, Err("internal"), crls, revoked)
                              /\ UNCHANGED <<revoked, bld>>
               ELSE \E ch \in AssocChoices(revoked, Eligible(ListedIssuers)) :
                      LET ids == Eligible(ListedIssuers)
                          got == getRevokedCertEntries(revoked, ids, ch)
                      IN /\ revoked' = got.store
                         /\ bld' = [bld EXCEPT ![p] =
                              [k |-> "bld", issuers |-> ListedIssuers, wasLegacy |-> legacy,
                               DefaultIssuerId |-> defaultIssuer,
                               classes |-> keySubjectIssuersMap(ListedIssuers),
                               todo |-> keySubjectIssuersMap(ListedIssuers),
                               crlConfig |-> localCRL,
                               unassigned |-> got.unassigned,
                               revokedCertsMap |-> augmentWithRevokedIssuers(ids, got.revokedCertsMap)]]
                         /\ pc' = [pc EXCEPT ![p] = "b_class"]
                         /\ UNCHANGED <<cbM, forceRebuild, result, prev>>
  /\ UNCHANGED <<issuerVars, crlVars, cfgStore, mountVars, cbC, dirty, cbConfig, call, loc, cfgL, cfgRet,
                 numHist, markVer, pass, startMark, flagHist, opsLeft, envLeft>>

\* buildCRL, lines 944-952: fetchCAInfoByIssuerId(thisIssuerId, CRLSigningUsage)
CanSign(id) ==
  \/ id = legacyBundleShimID
  \/ /\ issuers[id].listed
     /\ IssuerEntry(id).KeyID # ""
     /\ IssuerEntry(id).usage

\* a write-back that records the CRL id for the first member only
WriteBackFirstOnly(cls) == <<cls[1]>>

\* lines 674-677: the members whose IssuerIDCRLMap entry a class sets
WriteBackMembers(cls) == cls

\* lines 636-691: one iteration of the loop over the classes
buildClass(p) ==
  /\ pc[p] = "b_class"
  /\ \E cls \in bld[p].todo :
       LET b == bld[p]
           have == ClassCRLIds(cls, b.crlConfig)
           fresh == have = {}
           rep == Representative(cls, b.DefaultIssuerId)
           revokedCerts == ClassRevoked(cls, b.DefaultIssuerId, b.unassigned, b.revokedCertsMap)
       IN IF Cardinality(have) > 1
          THEN /\ RebuildReturn(p, Err("integrity"), crls, revoked)
               /\ UNCHANGED <<crlVars, minted, bld, numHist, failLeft>>
          ELSE /\ fresh => minted < MaxCRLIds
               /\ LET id == IF fresh THEN minted + 1 ELSE CHOOSE x \in have : TRUE
                      idx == IndexAfterClass(b.crlConfig, WriteBackMembers(cls), id, fresh)
                      crl == SignedCRL(cfgL[p], loc[p].myForceNew, rep, revokedCerts,
                                       CRLNumberFor(b.crlConfig, id, fresh), now)
                  IN /\ minted' = IF fresh THEN minted + 1 ELSE minted
                     /\ IF ~CanSign(rep)
                        THEN /\ RebuildReturn(p, Err("user"), crls, revoked)
                             /\ UNCHANGED <<crlVars, bld, numHist, failLeft>>
                        ELSE \E f \in FailSet :
                               /\ Spend(f)
                               /\ IF f
                                  THEN /\ RebuildReturn(p, Err("internal"), crls, revoked)
                                       /\ UNCHANGED <<crlVars, bld, numHist>>
                                  ELSE /\ IF rep = legacyBundleShimID
                                          THEN legacyCRL' = crl /\ UNCHANGED <<crls, numHist>>
                                          ELSE /\ crls' = MapPut(crls, id, crl)
                                               /\ lastNum' = MapPut(lastNum, id, crl.number)
                                               /\ lastPut' = [id |-> id, num |-> crl.number, tog |-> ~lastPut.tog]
                                               /\ UNCHANGED legacyCRL
                                       /\ bld' = [bld EXCEPT ![p].todo = b.todo \ {cls},
                                                             ![p].crlConfig =
                                                                [idx EXCEPT !.CRLExpirationMap =
                                                                   MapPut(idx.CRLExpirationMap, id, crl.nextUpdate)]]
                                       /\ UNCHANGED <<localCRL, cbM, forceRebuild, pc, result, prev>>
  /\ UNCHANGED <<issuerVars, revoked, cfgStore, legacy, tainted, standby, now, cbC, dirty, cbConfig,
                 call, loc, cfgL, cfgRet, markVer, pass, startMark, flagHist, opsLeft, envLeft>>

\* lines 705-743: drop the dangling references, delete the unreferenced CRLs,
\* persist the index
buildFinish(p) ==
  /\ pc[p] = "b_class"
  /\ bld[p].todo = {}
  /\ LET idx == IndexAfterGC(bld[p].crlConfig, bld[p].issuers)
         gone == UnreferencedCRLs(idx)
         kept == MapDel(crls, gone)
     IN \E f \in (IF failLeft > 0 THEN {"none", "delete", "persist"} ELSE {"none"}) :
          /\ Spend(f # "none")
          /\ f = "delete" => gone # {}
          /\ f = "persist" => ~bld[p].wasLegacy
          /\ crls' = IF f = "delete" THEN crls ELSE kept
          /\ localCRL' = IF f = "none" /\ ~bld[p].wasLegacy THEN idx ELSE localCRL
          /\ RebuildReturn(p, IF f = "none" THEN Built ELSE Err("internal"),
                           IF f = "delete" THEN crls ELSE kept, revoked)
  /\ UNCHANGED <<issuerVars, revoked, legacyCRL, cfgStore, mountVars, cbC, dirty, cbConfig, call, loc, bld,
                 cfgL, cfgRet, numHist, markVer, pass, startMark, flagHist, opsLeft, envLeft>>

\* ---------------------------------------------------------------- revokeCert
\* line 439: the wiggle room, in seconds
WiggleRoom == 2
\* a check that takes every certificate to be still valid
AlreadyExpiredNever(cert, t) == FALSE

AlreadyExpired(cert, t) == CertInfo[cert].notAfter < t + WiggleRoom

\* lines 379-382: the serial is the serial of one of the issuers
IsIssuerSerial(serial, ids) == \E i \in ids : colonSerial(serial) = SerialText(serialFromCert(IssuerCert[i]), ":", FALSE)

\* line 458: what associateRevokedCertWithIsssuer can leave in CertificateIssuer
AssocResults(cert, ids) ==
  IF AssocCandidates(cert, ids) = {} THEN {NoIssuer} ELSE AssocCandidates(cert, ids)

\* lines 451-454: revocationInfo, the time is filled in at line 451
NewRevInfo(cert, issuer) == [k |-> "rev", bytes |-> cert, time |-> 0, utc |-> 0, issuer |-> issuer]

\* a revocation, an issuer change or a config change happened (history)
Touch == loc' = Touched(loc) /\ prev' = NoPrev

\* a revokeCert that never finds the serial revoked
AlreadyRevokedNever(e) == FALSE

\* lines 390-406: revoked/<serial> exists
AlreadyRevoked(e) == e # NoEntry

\* lines 330-449: up to the decision to revoke
revokeCertInput(p, input, fromLease) ==
  LET serial == normalizeSerial(input) IN
  /\ Begin(p, [op |-> "revokeCert", serial |-> serial, fromLease |-> fromLease, input |-> input])
  /\ IF tainted
     THEN Done(p, NilResponse) /\ UNCHANGED <<loc, cfgRet, startMark, failLeft>>
     ELSE \E f \in FailSet :
       /\ Spend(f)
       /\ IF f
          THEN Done(p, ErrorResponse) /\ UNCHANGED <<loc, cfgRet, startMark>>
          ELSE IF IsIssuerSerial(input, Range(ListedIssuers))
          THEN Done(p, ErrorResponse) /\ UNCHANGED <<loc, cfgRet, startMark>>
          ELSE IF AlreadyRevoked(revoked[serial])
          THEN /\ loc' = [loc EXCEPT ![p] = MkLoc(revoked[serial], TRUE, FALSE, TRUE)]
               /\ EnterConfig(p, "rc_cfg")
               /\ UNCHANGED result
          ELSE IF serial \notin certs
          THEN /\ Done(p, IF fromLease THEN NilResponse ELSE ErrorResponse)
               /\ UNCHANGED <<loc, cfgRet, startMark>>
          ELSE IF AlreadyExpired(CertStore[serial], now)
          THEN Done(p, WarnResponse) /\ UNCHANGED <<loc, cfgRet, startMark>>
          ELSE IF CertInfo[CertStore[serial]].isCA /\ fromLease
          THEN Done(p, NilResponse) /\ UNCHANGED <<loc, cfgRet, startMark>>
          ELSE \E i \in AssocResults(CertStore[serial], Range(ListedIssuers)) :
                 /\ loc' = [loc EXCEPT ![p] = MkLoc(NewRevInfo(CertStore[serial], i), FALSE, FALSE, TRUE)]
                 /\ pc' = [pc EXCEPT ![p] = "rc_put"]
                 /\ UNCHANGED <<result, cfgRet, startMark>>
  /\ UNCHANGED <<storageVars, mountVars, cbVars, bld, cfgL, numHist, markVer, pass, flagHist, prev, envLeft>>

\* revokeCert with the serial written as serialFromCert writes it
revokeCert(p, serial, fromLease) == revokeCertInput(p, SerialText(serial, ":", FALSE), fromLease)

\* lines 451-468: take the time and store the revocation entry
revokePut(p) ==
  /\ pc[p] = "rc_put"
  /\ \E f \in FailSet :
       /\ Spend(f)
       /\ IF f
          THEN /\ Done(p, Err("internal"))
               /\ UNCHANGED <<revoked, loc, cfgRet, startMark, prev>>
          ELSE LET revInfo == [loc[p].revInfo EXCEPT !.time = now, !.utc = now]
               IN /\ revoked' = [revoked EXCEPT ![call[p].serial] = revInfo]
                  /\ loc' = [Touched(loc) EXCEPT ![p].revInfo = revInfo]
                  /\ prev' = NoPrev
                  /\ EnterConfig(p, "rc_cfg")
                  /\ UNCHANGED result
  /\ UNCHANGED <<issuerVars, crlVars, cfgStore, mountVars, cbVars, call, bld, cfgL,
                 numHist, markVer, pass, flagHist, opsLeft, envLeft>>

\* a revocation that rebuilds whatever the configuration says
RebuildOnRevokeAlways(cfg) == TRUE

\* line 479: the rebuild of a revocation is left to the scheduler under auto-rebuild
RebuildOnRevoke(cfg) == ~cfg.AutoRebuild

\* lines 474-499: the config, and rebuild unless auto-rebuild is on
revokeConfig(p) ==
  /\ pc[p] = "rc_cfg"
  /\ IF cfgL[p] = CfgErr
     THEN Done(p, Err("internal"))
     ELSE IF ~RebuildOnRevoke(cfgL[p])
     THEN Done(p, RevokeResponse(loc[p].revInfo, FALSE, FALSE))
     ELSE pc' = [pc EXCEPT ![p] = "db_lock"] /\ UNCHANGED result
  /\ UNCHANGED <<storageVars, mountVars, cbVars, call, loc, bld, cfgL, cfgRet, histVars, budgetVars>>

\* ---------------------------------------------------------------- environment
\* time passes
Tick ==
  /\ now < MaxTime
  /\ now' = now + 1
  /\ UNCHANGED <<storageVars, legacy, tainted, standby, minted, cbVars, taskVars, histVars, budgetVars>>

\* an operator writes config/crl
WriteConfig(c) ==
  /\ stCfgVer < MaxCfgWrites
  /\ stCfg' = c
  /\ stCfgVer' = stCfgVer + 1
  /\ Touch
  /\ UNCHANGED <<issuerVars, revoked, crlVars, mountVars, cbVars, pc, call, bld, cfgL, cfgRet, result,
                 numHist, markVer, pass, startMark, flagHist, budgetVars>>

\* an issuer or the default issuer changes
EnvStep ==
  /\ envLeft > 0
  /\ envLeft' = envLeft - 1
  /\ Touch
  /\ UNCHANGED <<certs, revoked, crlVars, cfgStore, mountVars, cbVars, pc, call, bld, cfgL, cfgRet, result,
                 numHist, markVer, pass, startMark, flagHist, opsLeft, failLeft>>

AddIssuer(i) ==
  /\ ~issuers[i].listed
  /\ issuers' = [issuers EXCEPT ![i] = [listed |-> TRUE, hasKey |-> TRUE, usage |-> TRUE, revoked |-> 0]]
  /\ UNCHANGED defaultIssuer
  /\ EnvStep

DeleteIssuer(i) ==
  /\ issuers[i].listed
  /\ issuers' = [issuers EXCEPT ![i].listed = FALSE]
  /\ UNCHANGED defaultIssuer
  /\ EnvStep

\* the key of issuer i is deleted, or imported again: its KeyID is empty, or
\* names the key of its certificate
SetKey(i) ==
  /\ issuers[i].listed
  /\ issuers' = [issuers EXCEPT ![i].hasKey = ~issuers[i].hasKey]
  /\ UNCHANGED defaultIssuer
  /\ EnvStep

SetUsage(i) ==
  /\ issuers[i].listed
  /\ issuers' = [issuers EXCEPT ![i].usage = ~issuers[i].usage]
  /\ UNCHANGED defaultIssuer
  /\ EnvStep

RevokeIssuer(i) ==
  /\ issuers[i].listed
  /\ issuers[i].revoked = 0
  /\ issuers' = [issuers EXCEPT ![i].revoked = now]
  /\ UNCHANGED defaultIssuer
  /\ EnvStep

SetDefault(d) ==
  /\ d # defaultIssuer
  /\ defaultIssuer' = d
  /\ UNCHANGED issuers
  /\ EnvStep

\* ======================================================================
\* Specifications
\* ======================================================================
CfgSteps(p) ==
  \/ ReloadCheck(p) \/ ReloadLock(p) \/ ReloadFetch(p) \/ ReloadAssign(p) \/ ConfigCopy(p)

BuildSteps(p) ==
  \/ doRebuildLock(p) \/ doRebuildClear(p) \/ buildRead(p) \/ buildClass(p) \/ buildFinish(p)

RevokeSteps(p) == revokePut(p) \/ revokeConfig(p)

\* newCRLBuilder, lines 152-157
InitBuilder ==
  /\ cbM = NoProc
  /\ forceRebuild = 0
  /\ cbC = NoProc
  /\ dirty = TRUE
  /\ cbConfig = WithVer(defaultCrlConfig, -1)

InitTasksWith(nums, put) ==
  /\ pc = [p \in Procs |-> "idle"]
  /\ call = [p \in Procs |-> NoCall]
  /\ loc = [p \in Procs |-> NoLoc]
  /\ bld = [p \in Procs |-> NoLoc]
  /\ cfgL = [p \in Procs |-> NoCfg]
  /\ cfgRet = [p \in Procs |-> "none"]
  /\ result = [p \in Procs |-> NoResult]
  /\ lastNum = nums
  /\ lastPut = put
  /\ markVer = -1
  /\ startMark = [p \in Procs |-> -1]
  /\ raised = FALSE
  /\ owed = FALSE
  /\ prev = NoPrev
  /\ pass = [p \in Procs |-> NoPass]
  /\ opsLeft = MaxOps
  /\ envLeft = MaxEnv
  /\ failLeft = MaxFail

InitTasks == InitTasksWith(EmptyMap, [id |-> 0, num |-> 0, tog |-> FALSE])

\* the issuers in listed are in storage, each with its key and every usage
IssuersWith(listed) ==
  [i \in IssuerIDs |-> [listed |-> i \in listed, hasKey |-> TRUE, usage |-> TRUE, revoked |-> 0]]

\* a mount on the active node with the issuers iss, nothing revoked and no
\* CRL built yet
InitMountWith(iss, cs, flags, store, idx, n) ==
  /\ issuers = iss
  /\ defaultIssuer = "i1"
  /\ certs = cs
  /\ revoked = [s \in Serials |-> NoEntry]
  /\ crls = store
  /\ legacyCRL = NoBlob
  /\ localCRL = idx
  /\ stCfgVer = 0
  /\ legacy = flags[1]
  /\ tainted = flags[2]
  /\ standby = flags[3]
  /\ now = 1
  /\ minted = n

InitMount(iss) == InitMountWith(iss, {4, 5}, <<FALSE, FALSE, FALSE>>, EmptyMap, EmptyIndex, 0)

Cfg(disable, auto) == [Disable |-> disable, AutoRebuild |-> auto, Expiry |-> 2, Grace |-> 1]

\* ---- revocations and rebuilds of one task while issuers come and go
Init ==
  /\ InitBuilder /\ InitTasks /\ InitMount(IssuersWith({"i1"}))
  /\ stCfg \in {NoCfg, Cfg(TRUE, FALSE)}

Next ==
  \/ CfgSteps("p1") \/ BuildSteps("p1") \/ RevokeSteps("p1") \/ Return("p1")
  \/ \E s \in {4, 5} : revokeCert("p1", s, FALSE)
  \/ \E b \in BOOLEAN : rebuild("p1", b)
  \/ AddIssuer("i2") \/ DeleteIssuer("i1") \/ SetUsage("i1") \/ SetDefault(NoIssuer)

Spec == Init /\ [][Next]_vars

\* ---- rebuilds of one task while the CRL config is rewritten
NextIdem ==
  \/ CfgSteps("p1") \/ BuildSteps("p1") \/ RevokeSteps("p1") \/ Return("p1")
  \/ revokeCert("p1", 4, FALSE)
  \/ \E b \in BOOLEAN : rebuild("p1", b)
  \/ \E d \in BOOLEAN : WriteConfig(Cfg(d, FALSE))
  \/ markConfigDirty

InitIdem ==
  /\ InitBuilder /\ InitTasks /\ InitMount(IssuersWith({"i1"}))
  /\ stCfg = NoCfg

SpecIdem == InitIdem /\ [][NextIdem]_vars

\* ---- builds over two equivalent issuers and an intermediate
InitIssuers ==
  /\ InitBuilder /\ InitTasks
  /\ \E u \in BOOLEAN : InitMount([IssuersWith({"i1", "i2", "i3"}) EXCEPT !["i2"].usage = u])
  /\ stCfg = NoCfg

NextIssuers ==
  \/ CfgSteps("p1") \/ BuildSteps("p1") \/ Return("p1")
  \/ rebuild("p1", FALSE)
  \/ \E i \in {"i1", "i2"} : SetUsage(i)
  \/ \E i \in {"i1", "i3"} : RevokeIssuer(i)

SpecIssuers == InitIssuers /\ [][NextIssuers]_vars

\* ---- readers of the config while it is rewritten and marked dirty
InitConfig ==
  /\ InitBuilder /\ InitTasks /\ InitMount(IssuersWith({"i1"}))
  /\ stCfg = NoCfg

NextConfig ==
  \/ \E p \in Procs : getConfigWithUpdate(p) \/ CfgSteps(p) \/ getConfigReturn(p) \/ Return(p)
  \/ \E d \in BOOLEAN : WriteConfig(Cfg(d, FALSE))
  \/ markConfigDirty

SpecConfig == InitConfig /\ [][NextConfig]_vars

\* ---- two tasks rebuilding while the force flag is raised
InitForce ==
  /\ InitBuilder /\ InitTasks /\ InitMount(IssuersWith({"i1"}))
  /\ stCfg \in {NoCfg, Cfg(FALSE, TRUE)}

NextForce ==
  \/ \E p \in Procs : CfgSteps(p) \/ BuildSteps(p) \/ Return(p)
  \/ \E p \in Procs : rebuildIfForced(p)
  \/ rebuild("p1", FALSE)
  \/ requestRebuildIfActiveNode
  \/ checkForAutoRebuild("p2") \/ checkForAutoRebuildBody("p2")

SpecForce == InitForce /\ [][NextForce]_vars

\* ---- two tasks revoking the same certificate
InitRace ==
  /\ InitBuilder /\ InitTasks /\ InitMount(IssuersWith({"i1"}))
  /\ stCfg = NoCfg

NextRace ==
  \/ \E p \in Procs : CfgSteps(p) \/ BuildSteps(p) \/ RevokeSteps(p) \/ Return(p)
  \/ \E p \in Procs : revokeCert(p, 4, FALSE)
  \/ Tick

SpecRace == InitRace /\ [][NextRace]_vars

\* ======================================================================
\* Claims
\* ======================================================================

\* C1: monotonic CRL number: whenever a CRL is written to crls/<CRL-ID>, its
\* Number is greater than the Number of every CRL written there before, also
\* when an earlier build failed after it had written the CRL.
C1_MonotonicNumber ==
  [][lastPut' # lastPut => lastPut'.num > MapGet(lastNum, lastPut'.id, 0)]_vars

\* ---------------------------------------------------------------------
\* the CRL stored for issuer t lists serial s
OnCRLOf(idx, store, t, s) ==
  /\ t \in DOMAIN idx.IssuerIDCRLMap
  /\ idx.IssuerIDCRLMap[t] \in DOMAIN store
  /\ \E e \in store[idx.IssuerIDCRLMap[t]].revoked : e.serial = s

\* task p has returned from revokeCert with a response that carries
\* revocation_time, and rebuild ran inside the call
RevokedWithRebuild(p) ==
  /\ pc[p] = "done"
  /\ call[p].op = "revokeCert"
  /\ result[p].k = "resp"
  /\ result[p].ran

\* the default issuer the call's build read, or the stored one when it read none
DefaultSeenBy(p) == IF bld[p] = NoLoc THEN defaultIssuer ELSE bld[p].DefaultIssuerId

\* C2 as stated: after revokeCert returned a response with revocation_time and
\* rebuild ran inside the call, the CRL stored for the certificate's issuer, or
\* for the default issuer when no issuer matches, lists the serial.
C2_AsStated ==
  \A p \in Procs :
    RevokedWithRebuild(p) =>
      LET e == revoked[call[p].serial]
      IN OnCRLOf(localCRL, crls, IF e.issuer # NoIssuer THEN e.issuer ELSE DefaultSeenBy(p),
                 call[p].serial)

\* the issuer whose CRL the build of task p puts entry e on
TargetIn(p, e) ==
  IF e.issuer \in DOMAIN bld[p].revokedCertsMap THEN e.issuer ELSE bld[p].DefaultIssuerId

\* task p has returned from a revokeCert whose build went through with the CRL
\* enabled, outside legacy mode
RevokedAndBuilt(p) ==
  /\ RevokedWithRebuild(p)
  /\ result[p].built
  /\ ~cfgL[p].Disable
  /\ ~bld[p].wasLegacy
  /\ ~revokedCertIsIssuer(revoked[call[p].serial], DOMAIN bld[p].revokedCertsMap)

\* C2, amended: after revokeCert returned a response with revocation_time and
\* its rebuild built the CRLs with Disable false outside legacy mode, the serial
\* is on the CRL of the issuer the entry is associated with, or of the default
\* issuer when no issuer matches, provided that issuer had a key and the
\* CRLSigning usage when the build listed the issuers.
C2_RevokedOnCRL ==
  \A p \in Procs :
    RevokedAndBuilt(p) =>
      LET t == TargetIn(p, revoked[call[p].serial])
      IN t \in DOMAIN bld[p].revokedCertsMap => OnCRLOf(localCRL, crls, t, call[p].serial)

\* an orphan certificate was revoked and is on the default issuer's CRL
C2_Witness ==
  \E p \in Procs :
    /\ RevokedAndBuilt(p)
    /\ call[p].serial = 5
    /\ TargetIn(p, revoked[5]) = "i1"
    /\ OnCRLOf(localCRL, crls, "i1", 5)

\* ---------------------------------------------------------------------
\* C3: config reloads are linearizable with respect to markConfigDirty: a
\* getConfigWithUpdate that starts after a markConfigDirty call has returned
\* and returns a configuration returns one read from storage at or after
\* that mark.
C3_ReloadLinearizable ==
  \A p \in Procs :
    (pc[p] = "done" /\ call[p].op = "getConfigWithUpdate" /\ result[p].k = "ok")
      => cfgL[p].ver >= startMark[p]

\* ---------------------------------------------------------------------
\* the step in which the operation of task p returns
Returns(p) == pc[p] # "done" /\ pc'[p] = "done"

\* the flag goes from 1 to 0 only in the step of the mutex holder that starts
\* a build, before buildCRLs reads anything
ClearedOnlyAtStart ==
  (forceRebuild = 1 /\ forceRebuild' = 0) =>
    \E p \in Procs : cbM = p /\ pc[p] = "db_clear" /\ pc'[p] = "cfg_check"

\* a _doRebuild that read the flag as 1 runs a build, with forceNew
FlagForcesBuild ==
  \A p \in Procs :
    (pc[p] = "db_clear" /\ pc'[p] # "db_clear" /\ loc[p].forceBuildFlag = 1)
      => (pc'[p] = "cfg_check" /\ loc'[p].myForceNew)

\* once a raise took effect while a build was running, a rebuildIfForced
\* enters _doRebuild and runs a build
OwedBuildRuns ==
  \A p \in Procs :
    /\ (owed /\ pc[p] = "idle" /\ call'[p].op = "rebuildIfForced") => pc'[p] = "db_lock"
    /\ (owed /\ call[p].op = "rebuildIfForced" /\ pc[p] = "db_clear" /\ pc'[p] # "db_clear")
         => pc'[p] = "cfg_check"

\* C4 as stated: the flag is cleared only at the start of a build, under the
\* mutex and before the build reads anything; a raise that takes effect after
\* the clear leaves the flag at 1; and the next rebuildIfForced runs another
\* full build.
C4_AsStated ==
  /\ [][ClearedOnlyAtStart /\ OwedBuildRuns]_vars
  /\ [](raised => forceRebuild = 1)

\* C4, amended: the flag is cleared only at the start of a build, under the
\* mutex and before the build reads anything; a raise that takes effect after
\* the clear leaves the flag at 1 until the next build starts; and the next
\* _doRebuild that reads the flag as 1, from rebuild or from rebuildIfForced,
\* runs a full build with forceNew.
C4_NoLostRequest ==
  /\ [][ClearedOnlyAtStart /\ FlagForcesBuild]_vars
  /\ [](raised => forceRebuild = 1)

\* a raise took effect while the mutex holder was writing CRLs
C4_Witness ==
  \E p \in Procs : cbM = p /\ pc[p] = "b_class" /\ raised /\ owed /\ forceRebuild = 1

\* C5 as stated: whenever rebuildIfForced returns success, the flag is 0 at
\* the moment of return.
C5_AsStated ==
  [][\A p \in Procs :
       (Returns(p) /\ call[p].op = "rebuildIfForced" /\ IsSuccess(result'[p]))
         => forceRebuild' = 0]_vars

\* C5, amended: whenever rebuildIfForced returns success, the flag is 0 at
\* the moment of return unless a raise took effect after the last reset of
\* the flag, which for a call that built is its own reset.
C5_ClearBeforeBuild ==
  [][\A p \in Procs :
       (Returns(p) /\ call[p].op = "rebuildIfForced" /\ IsSuccess(result'[p]))
         => (forceRebuild' = 0 \/ raised')]_vars

\* a rebuildIfForced has built and returned with the flag at 0
C5_Witness ==
  \E p \in Procs :
    /\ pc[p] = "done" /\ call[p].op = "rebuildIfForced"
    /\ result[p].k = "ok" /\ result[p].built
    /\ forceRebuild = 0

\* ---------------------------------------------------------------------
\* a build of task p went through outside legacy mode
BuiltBy(p) ==
  /\ pc[p] = "done"
  /\ call[p].op \in {"rebuild", "rebuildIfForced", "revokeCert"}
  /\ IsSuccess(result[p]) /\ result[p].built
  /\ ~bld[p].wasLegacy

\* the members of every class the build formed map to one CRL id
ClassesClosed(p) ==
  \A cls \in bld[p].classes :
    \A a, b \in Range(cls) :
      /\ a \in DOMAIN localCRL.IssuerIDCRLMap
      /\ b \in DOMAIN localCRL.IssuerIDCRLMap
      /\ localCRL.IssuerIDCRLMap[a] = localCRL.IssuerIDCRLMap[b]

\* a build that succeeds found at most one CRL id among the members of each
\* class in the index it read (the persisted one: the build holds the mutex)
SplitClassFails ==
  \A p \in Procs :
    (pc[p] = "b_class" /\ pc'[p] = "done" /\ result'[p].k = "ok") =>
      \A cls \in bld[p].classes : Cardinality(ClassCRLIds(cls, localCRL)) <= 1

\* C6: equivalence closure: after a successful, not skipped build outside
\* legacy mode all issuers with the same (KeyID, subject), a key and the
\* CRLSigning usage map to the same CRL id in the persisted index, and a
\* build that finds two stored CRL ids in one class does not succeed.
C6_EquivalenceClosure ==
  /\ [](\A p \in Procs : BuiltBy(p) => ClassesClosed(p))
  /\ [][SplitClassFails]_vars

\* a build over the class {i1, i2} succeeded, and another one ended with the
\* integrity error
C6_Witness ==
  \E p \in Procs :
    /\ pc[p] = "done"
    /\ result[p] = Err("integrity")
    /\ \E cls \in keySubjectIssuersMap(ListedIssuers) : {"i1", "i2"} \subseteq Range(cls)

\* a build over the class {i1, i2} succeeded with both on one CRL id
C6_WitnessClosed ==
  \E p \in Procs :
    /\ BuiltBy(p)
    /\ \E cls \in bld[p].classes : {"i1", "i2"} \subseteq Range(cls)
    /\ ClassesClosed(p)

\* C7: no self-revocation: after a successful build the CRL stored under an
\* issuer's CRL id has no entry for that issuer's own certificate (its serial
\* with its raw bytes), also when the issuer is revoked and an issuer of its
\* own class verifies its signature.
C7_NoSelfRevocation ==
  \A p \in Procs :
    BuiltBy(p) =>
      \A i \in DOMAIN localCRL.IssuerIDCRLMap :
        localCRL.IssuerIDCRLMap[i] \in DOMAIN crls =>
          \A e \in crls[localCRL.IssuerIDCRLMap[i]].revoked :
            ~(e.serial = serialFromCert(IssuerCert[i]) /\ e.raw = IssuerCert[i])

\* ---------------------------------------------------------------------
\* C8: revocation entries are write-once: once revoked/<serial> exists, no
\* step of any revokeCert call or build changes its certificate bytes, its
\* revocation time or its UTC revocation time; only the issuer may be filled
\* in.
C8_WriteOnce ==
  [][\A s \in Serials :
       revoked[s] # NoEntry =>
         /\ revoked'[s] # NoEntry
         /\ revoked'[s].bytes = revoked[s].bytes
         /\ revoked'[s].time = revoked[s].time
         /\ revoked'[s].utc = revoked[s].utc]_vars

\* ---------------------------------------------------------------------
\* the revokeCert of task p found the serial revoked, ran rebuild and
\* returns a response in this step; a CRL had been built before
ReRevokeReturns(p) ==
  /\ Returns(p)
  /\ call[p].op = "revokeCert"
  /\ loc[p].alreadyRevoked
  /\ result'[p].k = "resp" /\ result'[p].ran
  /\ DOMAIN localCRL.CRLNumberMap # {}

\* C9 as stated: a second revokeCert of a revoked serial succeeds and the
\* persisted CRLNumberMap is the same before and after the call.
C9_AsStated ==
  [][\A p \in Procs : ReRevokeReturns(p) => localCRL'.CRLNumberMap = localCRL.CRLNumberMap]_vars

\* the CRL ids of the classes the build of task p wrote
WrittenBy(p, idx) ==
  {idx.IssuerIDCRLMap[m] : m \in {x \in UNION {Range(cls) : cls \in bld[p].classes} :
                                     x \in DOMAIN idx.IssuerIDCRLMap}}

\* C9, amended: a second revokeCert of a revoked serial runs rebuild again;
\* when the build is not skipped, each CRL it rebuilds is stored with the
\* Number the persisted CRLNumberMap held before the call and the persisted
\* entry is one higher after the call; when the build is skipped because the
\* CRL is disabled, neither the index nor any stored CRL changes.
C9_ReRevokeRebuilds ==
  [][\A p \in Procs :
       ReRevokeReturns(p) =>
         IF result'[p].built
         THEN \A id \in WrittenBy(p, localCRL') :
                id \in DOMAIN localCRL.CRLNumberMap =>
                  /\ localCRL'.CRLNumberMap[id] = localCRL.CRLNumberMap[id] + 1
                  /\ crls'[id].number = localCRL.CRLNumberMap[id]
         ELSE localCRL' = localCRL /\ crls' = crls]_vars

\* the second revocation of a serial has rebuilt a CRL that was built twice
\* before
C9_Witness ==
  \E p \in Procs :
    /\ pc[p] = "done" /\ call[p].op = "revokeCert"
    /\ result[p].k = "resp" /\ result[p].built
    /\ loc[p].alreadyRevoked
    /\ \E id \in WrittenBy(p, localCRL) :
         /\ id \in DOMAIN crls /\ crls[id].number = 2
         /\ localCRL.CRLNumberMap[id] = 3

\* ---------------------------------------------------------------------
\* a rebuild() of task p returns success in this step, the rebuild() before it
\* succeeded, and no revocation, issuer change or config change happened since
\* that one started
SecondRebuildReturns(p) ==
  /\ Returns(p)
  /\ call[p].op = "rebuild"
  /\ result'[p].k = "ok"
  /\ prev.k # "none"

\* C10 as stated: of two consecutive successful rebuild() calls with no
\* revocation, issuer change or config change between them, the second leaves
\* every stored CRL with the same set of revoked entries as the first, and
\* every revocation entry with the same issuer.
C10_AsStated ==
  [][\A p \in Procs :
       SecondRebuildReturns(p) =>
         /\ \A id \in DOMAIN prev.sets : id \in DOMAIN crls' /\ crls'[id].revoked = prev.sets[id]
         /\ Routes(revoked') = prev.routes]_vars

\* C10, amended: of two consecutive successful rebuild() calls with no
\* revocation, issuer change or config change between them, neither of them
\* skipped because the CRL is disabled, the second stores for every CRL id a
\* CRL with the same set of revoked entries as the first and leaves every
\* revocation entry with the same issuer; a skipped second call changes nothing.
C10_Idempotent ==
  [][\A p \in Procs :
       SecondRebuildReturns(p) =>
         IF result'[p].built
         THEN prev.k = "built" =>
                /\ RevokedSets(crls') = prev.sets
                /\ Routes(revoked') = prev.routes
         ELSE crls' = crls /\ revoked' = revoked /\ localCRL' = localCRL]_vars

\* a second rebuild() in a row has written a CRL that lists a revoked serial
C10_Witness ==
  \E p \in Procs :
    /\ pc[p] = "b_class" /\ call[p].op = "rebuild" /\ bld[p].todo = {}
    /\ prev.k = "built"
    /\ \E id \in DOMAIN crls : crls[id].revoked # {} /\ id \in DOMAIN prev.sets /\ crls[id].number >= 2

\* ======================================================================
\* Further specifications
\* ======================================================================

\* ---- revocations and rebuilds of one task while the CRL is disabled
InitDisable ==
  /\ InitBuilder /\ InitTasks /\ InitMount(IssuersWith({"i1"}))
  /\ stCfg = Cfg(TRUE, FALSE)

NextDisable ==
  \/ CfgSteps("p1") \/ BuildSteps("p1") \/ RevokeSteps("p1") \/ Return("p1")
  \/ revokeCert("p1", 4, FALSE)
  \/ \E b \in BOOLEAN : rebuild("p1", b)
  \/ requestRebuildIfActiveNode

SpecDisable == InitDisable /\ [][NextDisable]_vars

\* ---------------------------------------------------------------------
\* task p holds the mutex inside a rebuild(forceNew=false) whose build has
\* read a config with Disable true
DisabledRebuild(p) ==
  /\ cbM = p
  /\ call[p].op = "rebuild" /\ ~call[p].forceNew
  /\ pc[p] \in {"b_read", "b_class"}
  /\ cfgL[p] # CfgErr /\ cfgL[p].Disable

NothingWritten == UNCHANGED <<crls, legacyCRL, localCRL, revoked>>

\* C11 as stated: with Disable true, rebuild(forceNew=false) writes no CRL,
\* does not change the index or a CRL number and modifies no revocation
\* entry, in every state of the builder.
C11_AsStated ==
  [][\A p \in Procs : DisabledRebuild(p) => NothingWritten]_vars

\* C11, amended: with Disable true, rebuild(forceNew=false) writes no CRL,
\* does not change the index or a CRL number and modifies no revocation
\* entry, provided the force-rebuild flag was 0 when _doRebuild read it.
C11_DisabledNoOp ==
  [][\A p \in Procs : (DisabledRebuild(p) /\ loc[p].forceBuildFlag = 0) => NothingWritten]_vars

\* a rebuild(forceNew=false) was skipped while a revocation entry waits
C11_Witness ==
  \E p \in Procs :
    /\ pc[p] = "done" /\ call[p].op = "rebuild" /\ ~call[p].forceNew
    /\ result[p] = OK
    /\ cfgL[p] # CfgErr /\ cfgL[p].Disable
    /\ revoked[4] # NoEntry

\* ---------------------------------------------------------------------
\* the build of task p left, for class cls, an empty CRL whose number was
\* consumed and whose NextUpdate is recorded
EmptySentinel(cls) ==
  /\ cls[1] \in DOMAIN localCRL.IssuerIDCRLMap
  /\ LET id == localCRL.IssuerIDCRLMap[cls[1]]
     IN /\ id \in DOMAIN crls
        /\ crls[id].revoked = {}
        /\ localCRL.CRLNumberMap[id] = crls[id].number + 1
        /\ localCRL.CRLExpirationMap[id] = crls[id].nextUpdate

\* C12: with Disable true and forceNew true a build signs and stores, for
\* every class, a CRL with an empty revoked list whatever revocation entries
\* exist, consumes a CRL number and records NextUpdate in CRLExpirationMap.
C12_EmptyWhenDisabled ==
  \A p \in Procs :
    (BuiltBy(p) /\ cfgL[p].Disable) => \A cls \in bld[p].classes : EmptySentinel(cls)

\* a forced build of the disabled CRL went through while the class of i1 had
\* a revoked certificate
C12_Witness ==
  \E p \in Procs :
    /\ BuiltBy(p) /\ cfgL[p].Disable
    /\ bld[p].revokedCertsMap["i1"] # {}
    /\ \E cls \in bld[p].classes : cls[1] = "i1" /\ EmptySentinel(cls)

\* ---------------------------------------------------------------------
\* ---- revocations under auto-rebuild, and the scheduler
\* the mount after one build of the class of i1 at time 1 under cfg
BuiltOnce(cfg) ==
  LET crl == SignedCRL(cfg, FALSE, "i1", {}, CRLNumberFor(EmptyIndex, 1, TRUE), 1)
      idx == IndexAfterClass(EmptyIndex, <<"i1">>, 1, TRUE)
  IN [store |-> MapPut(EmptyMap, 1, crl),
      idx |-> [idx EXCEPT !.CRLExpirationMap = MapPut(idx.CRLExpirationMap, 1, crl.nextUpdate)],
      put |-> [id |-> 1, num |-> crl.number, tog |-> TRUE]]

InitAuto ==
  /\ InitBuilder
  /\ stCfg = Cfg(FALSE, TRUE)
  /\ \/ InitTasks /\ InitMount(IssuersWith({"i1"}))
     \/ LET b == BuiltOnce(Cfg(FALSE, TRUE))
        IN /\ InitTasksWith(MapPut(EmptyMap, 1, b.put.num), b.put)
           /\ InitMountWith(IssuersWith({"i1"}), {4, 5}, <<FALSE, FALSE, FALSE>>, b.store, b.idx, 1)

NextAuto ==
  \/ \E p \in Procs : CfgSteps(p) \/ BuildSteps(p) \/ RevokeSteps(p) \/ Return(p)
  \/ \E s \in {4, 5} : revokeCert("p1", s, FALSE)
  \/ checkForAutoRebuild("p2") \/ checkForAutoRebuildBody("p2")
  \/ rebuildIfForced("p2")
  \/ Tick

SpecAuto == InitAuto /\ [][NextAuto]_vars

\* a step of a revokeCert call of task p
RevokeStep(p) == call'[p].op = "revokeCert" /\ (pc'[p] # pc[p] \/ call[p] # call'[p])

\* revokeCert of task p has stored a new entry, has the config, and returns
DeferredReturn(p) ==
  /\ call[p].op = "revokeCert" /\ pc[p] = "rc_cfg" /\ pc'[p] # "rc_cfg"
  /\ ~loc[p].alreadyRevoked
  /\ cfgL[p] # CfgErr /\ cfgL[p].AutoRebuild

\* C13: with AutoRebuild true, a revokeCert that persists a new entry performs
\* no CRL build: it writes no crls/ blob, does not change the cluster-local
\* index, and returns success with the revocation time.
C13_NoBuildOnRevoke ==
  [][\A p \in Procs :
       /\ RevokeStep(p) => UNCHANGED crlVars
       /\ DeferredReturn(p) =>
            /\ pc'[p] = "done"
            /\ result'[p].k = "resp" /\ ~result'[p].ran
            /\ result'[p].revocation_time = revoked[call[p].serial].time]_vars

\* a revocation was stored and answered without a build
C13_Witness ==
  \E p \in Procs :
    /\ pc[p] = "done" /\ call[p].op = "revokeCert"
    /\ result[p].k = "resp" /\ ~result[p].ran
    /\ ~loc[p].alreadyRevoked
    /\ revoked[call[p].serial] # NoEntry
    /\ cfgL[p].AutoRebuild

\* ---------------------------------------------------------------------
\* task p has run checkForAutoRebuild and then rebuildIfForced, both without
\* an error, and is about to return from the second
PassDone(p) ==
  /\ pc[p] = "done" /\ call[p].op = "rebuildIfForced"
  /\ pass[p].on /\ result[p].k = "ok"

\* every revocation stored before the pass of p began is on the CRL of i1,
\* the only issuer and the default one
SeenPublished(p) == \A s \in pass[p].seen : OnCRLOf(localCRL, crls, "i1", s)

\* C14 as stated: after any revokeCert that persisted a new entry, the next
\* pass of the scheduler (checkForAutoRebuild, then rebuildIfForced) runs a
\* build and publishes a CRL containing that revocation.
C14_AsStated ==
  \A p \in Procs : (PassDone(p) /\ pass[p].seen # {}) => (result[p].built /\ SeenPublished(p))

\* checkForAutoRebuild of task p returns nil having read the index
CheckedIndex(p) ==
  /\ pc[p] = "ca_body" /\ pc'[p] = "done" /\ result'[p] = OK
  /\ ~cfgL[p].Disable /\ cfgL[p].AutoRebuild

\* the index has no expiration, a zero one, or one within the grace period of cfg
IndexExpiring(cfg) ==
  \/ DOMAIN localCRL.CRLExpirationMap = {}
  \/ \E id \in DOMAIN localCRL.CRLExpirationMap :
       \/ localCRL.CRLExpirationMap[id] = 0
       \/ now > localCRL.CRLExpirationMap[id] - GracePeriod(cfg)

\* C14: under auto-rebuild a revocation does not raise the force-rebuild
\* flag; checkForAutoRebuild raises it when the index has no expiration, a
\* zero one, or one within the grace period, and a pass whose rebuildIfForced
\* then builds publishes every revocation stored before the pass began.
C14_SchedulerDrains ==
  /\ [][\A p \in Procs :
          /\ RevokeStep(p) => UNCHANGED forceRebuild
          /\ (CheckedIndex(p) /\ IndexExpiring(cfgL[p])) => forceRebuild' = 1
          /\ (CheckedIndex(p) /\ ~IndexExpiring(cfgL[p])) => UNCHANGED forceRebuild]_vars
  /\ [](\A p \in Procs : (PassDone(p) /\ result[p].built) => SeenPublished(p))

\* a pass that followed a revocation has built, and the revocation is published
C14_Witness ==
  \E p \in Procs :
    /\ PassDone(p) /\ result[p].built
    /\ pass[p].seen # {} /\ SeenPublished(p)

\* ---------------------------------------------------------------------
\* ---- revocations while issuers come, go and lose the CRL-signing usage
InitAssoc ==
  /\ InitBuilder /\ InitTasks /\ InitMount(IssuersWith({"i1"}))
  /\ stCfg = NoCfg

NextAssoc ==
  \/ CfgSteps("p1") \/ BuildSteps("p1") \/ RevokeSteps("p1") \/ Return("p1")
  \/ \E s \in {4, 5} : revokeCert("p1", s, FALSE)
  \/ rebuild("p1", FALSE)
  \/ DeleteIssuer("i1") \/ AddIssuer("i2") \/ SetUsage("i2")

SpecAssoc == InitAssoc /\ [][NextAssoc]_vars

\* the subject of issuer i is the issuer name of cert, and its key verifies
\* the signature on cert
Matches(cert, i) ==
  /\ CertInfo[cert].rawIssuer = CertInfo[IssuerCert[i]].subject
  /\ CertInfo[cert].signer = CertInfo[IssuerCert[i]].key

\* the persisted entry of serial s names an issuer that matches its certificate
Associated(store, s) ==
  /\ store[s].issuer # NoIssuer
  /\ Matches(store[s].bytes, store[s].issuer)

\* C15 as stated: after revokeCert succeeds for a certificate signed by a
\* currently listed issuer, the persisted entry names a matching issuer at
\* once or after the next successful build (here the build revokeCert ran).
C15_AsStated ==
  \A p \in Procs :
    ( /\ pc[p] = "done" /\ call[p].op = "revokeCert"
      /\ result[p].k = "resp" /\ result[p].ran /\ result[p].built
      /\ ~loc[p].stale
      /\ \E i \in Range(ListedIssuers) : Matches(CertStore[call[p].serial], i) )
    => Associated(revoked, call[p].serial)

\* revokeCert of task p stores a new entry while the issuers it listed are unchanged
StoresEntry(p) ==
  /\ pc[p] = "rc_put" /\ pc'[p] # "rc_put" /\ revoked' # revoked
  /\ ~loc[p].stale

\* buildCRLs of task p has read the revoked certificates
ReadsEntries(p) == pc[p] = "b_read" /\ pc'[p] = "b_class"

\* C15: a new entry stored by revokeCert names a matching listed issuer when
\* there is one; a build sets issuer_id, on every entry whose certificate
\* matches an issuer that has a key and the CRL-signing usage, to such an
\* issuer; and no persisted issuer_id ever fails the subject or signature check.
C15_RoundTrip ==
  /\ [](\A s \in revokedSerials(revoked) : revoked[s].issuer # NoIssuer => Associated(revoked, s))
  /\ [][\A p \in Procs :
          /\ (StoresEntry(p) /\ \E i \in Range(ListedIssuers) : Matches(CertStore[call[p].serial], i))
               => /\ Associated(revoked', call[p].serial)
                  /\ revoked'[call[p].serial].issuer \in Range(ListedIssuers)
          /\ ReadsEntries(p) =>
               \A s \in revokedSerials(revoked) :
                 (\E i \in Eligible(ListedIssuers) : Matches(revoked[s].bytes, i))
                   => /\ Associated(revoked', s)
                      /\ revoked'[s].issuer \in Eligible(ListedIssuers)]_vars

\* revokeCert found an entry without an issuer, and the build it ran has
\* filled in a matching one
C15_Witness ==
  \E p \in Procs :
    /\ pc[p] = "done" /\ call[p].op = "revokeCert"
    /\ result[p].k = "resp" /\ result[p].built
    /\ loc[p].alreadyRevoked /\ loc[p].revInfo.issuer = NoIssuer
    /\ Associated(revoked, call[p].serial)

\* ---------------------------------------------------------------------
\* ---- the early returns of revokeCert: a mount that may be tainted, the
\* certificates 3 (a CA), 4 and 6 (expiring) under certs/, 5 absent
InitBenign ==
  /\ InitBuilder /\ InitTasks
  /\ \E t \in BOOLEAN : InitMountWith(IssuersWith({"i1"}), {3, 4, 6}, <<FALSE, t, FALSE>>, EmptyMap, EmptyIndex, 0)
  /\ stCfg = NoCfg

NextBenign ==
  \/ CfgSteps("p1") \/ BuildSteps("p1") \/ RevokeSteps("p1") \/ Return("p1")
  \/ \E n \in {1, 3} : \E input \in InputForms(n) : \E l \in BOOLEAN : revokeCertInput("p1", input, l)
  \/ \E n \in {5, 6} : \E l \in BOOLEAN : revokeCert("p1", n, l)
  \/ AddIssuer("i3")
  \/ Tick

SpecBenign == InitBenign /\ [][NextBenign]_vars

\* task p enters revokeCert, and no storage call of this step fails
EntersRevoke(p) ==
  /\ pc[p] = "idle" /\ call'[p].op = "revokeCert"
  /\ failLeft' = failLeft

\* the certificate of serial n is absent and the call comes from a lease, or
\* it is about to expire, or it is a CA and the call comes from a lease
BenignCert(n, fromLease) ==
  \/ n \notin certs /\ fromLease
  \/ n \in certs /\ CertInfo[CertStore[n]].notAfter < now + WiggleRoom
  \/ n \in certs /\ CertInfo[CertStore[n]].isCA /\ fromLease

\* revokeCert of task p returns at once, without an error and without a trace
ReturnsUntouched(p) ==
  /\ pc'[p] = "done"
  /\ result'[p] \in {NilResponse, WarnResponse}
  /\ UNCHANGED <<revoked, crlVars, forceRebuild>>

\* C16 as stated: on a tainted mount, for an absent certificate of a lease,
\* an expiring certificate or a CA certificate of a lease, revokeCert returns
\* without error, writes no entry, runs no build and leaves the flag alone.
C16_AsStated ==
  [][\A p \in Procs :
       (EntersRevoke(p) /\ (tainted \/ BenignCert(call'[p].serial, call'[p].fromLease)))
         => ReturnsUntouched(p)]_vars

\* the serial is the serial of the certificate of a listed issuer
NamesIssuer(n) == \E i \in Range(ListedIssuers) : n = CertInfo[IssuerCert[i]].serial

\* C16: the tainted check comes first and makes revokeCert a no-op; the other
\* benign cases are no-ops when the serial is not that of a listed issuer and
\* has no revocation entry yet.
C16_BenignNoOps ==
  [][\A p \in Procs :
       /\ (pc[p] = "idle" /\ call'[p].op = "revokeCert" /\ tainted)
            => (ReturnsUntouched(p) /\ result'[p] = NilResponse /\ failLeft' = failLeft)
       /\ ( /\ EntersRevoke(p)
            /\ BenignCert(call'[p].serial, call'[p].fromLease)
            /\ ~NamesIssuer(call'[p].serial)
            /\ revoked[call'[p].serial] = NoEntry )
            => ReturnsUntouched(p)]_vars

\* the expiring certificate was not revoked: the caller got the warning
C16_Witness ==
  \E p \in Procs :
    /\ pc[p] = "done" /\ call[p].op = "revokeCert"
    /\ call[p].serial = 6 /\ result[p] = WarnResponse
    /\ ~tainted /\ revoked[6] = NoEntry

\* ---------------------------------------------------------------------
\* revokeCert of task p answers with an error response and changes nothing
Rejected(p) ==
  /\ pc'[p] = "done"
  /\ result'[p] = ErrorResponse
  /\ UNCHANGED <<revoked, crlVars, forceRebuild>>

InitOrphan ==
  /\ InitBuilder /\ InitTasks /\ InitMount(IssuersWith({"i1", "i3"}))
  /\ stCfg = NoCfg

NextOrphan ==
  \/ CfgSteps("p1") \/ BuildSteps("p1") \/ RevokeSteps("p1") \/ Return("p1")
  \/ revokeCert("p1", 5, FALSE)
  \/ rebuild("p1", FALSE)
  \/ \E d \in {NoIssuer, "i3"} : SetDefault(d)
  \/ SetUsage("i1")

SpecOrphan == InitOrphan /\ [][NextOrphan]_vars

\* the entry of serial s names none of the issuers the build of task p
\* considered, and none of them matches its certificate
OrphanIn(p, s) ==
  /\ revoked[s].issuer \notin DOMAIN bld[p].revokedCertsMap
  /\ \A i \in DOMAIN bld[p].revokedCertsMap : ~Matches(revoked[s].bytes, i)

\* the CRLs written by the build of task p that list serial s
ListedOn(p, s) ==
  {id \in WrittenBy(p, localCRL) : id \in DOMAIN crls /\ \E e \in crls[id].revoked : e.serial = s}

\* the CRL of the class of the default issuer the build of task p read, if any
DefaultCRL(p) ==
  {localCRL.IssuerIDCRLMap[bld[p].DefaultIssuerId] :
     cls \in {c \in bld[p].classes : bld[p].DefaultIssuerId \in Range(c)}}

Dangling == {id \in DOMAIN localCRL.CRLNumberMap :
               \A x \in DOMAIN localCRL.IssuerIDCRLMap : localCRL.IssuerIDCRLMap[x] # id}

\* the build of task p persists the index
PersistsIndex(p) ==
  /\ pc[p] = "b_class" /\ pc'[p] = "done"
  /\ IsSuccess(result'[p]) /\ result'[p].built
  /\ ~bld[p].wasLegacy

FailsInClass(p) ==
  /\ pc[p] = "b_class" /\ pc'[p] = "done"
  /\ bld[p].todo # {}
  /\ ~IsSuccess(result'[p])
  /\ ~bld[p].wasLegacy

\* the CRL of class cls and what the build of task p recorded for it are persisted
ClassPersisted(p, cls) ==
  LET id == bld[p].crlConfig.IssuerIDCRLMap[cls[1]]
  IN /\ id \in DOMAIN crls'
     /\ \A m \in Range(cls) :
          m \in DOMAIN localCRL'.IssuerIDCRLMap /\ localCRL'.IssuerIDCRLMap[m] = id
     /\ id \in DOMAIN localCRL'.CRLNumberMap
     /\ localCRL'.CRLNumberMap[id] = bld[p].crlConfig.CRLNumberMap[id]
     /\ id \in DOMAIN localCRL'.CRLExpirationMap
     /\ localCRL'.CRLExpirationMap[id] = bld[p].crlConfig.CRLExpirationMap[id]

\* C20: when a build fails while it processes a class, the persisted index
\* is unchanged for the classes not completed, and for every class completed
\* earlier in the build the CRL blob and the index updates (the mapping, the
\* incremented number, the expiration) are persisted.
C20_ForwardProgress ==
  [][\A p \in Procs : FailsInClass(p) =>
       /\ \A cls \in bld[p].todo : \A m \in Range(cls) :
            /\ (m \in DOMAIN localCRL'.IssuerIDCRLMap) = (m \in DOMAIN localCRL.IssuerIDCRLMap)
            /\ m \in DOMAIN localCRL.IssuerIDCRLMap
                 => localCRL'.IssuerIDCRLMap[m] = localCRL.IssuerIDCRLMap[m]
       /\ \A cls \in bld[p].classes \ bld[p].todo : ClassPersisted(p, cls)]_vars

\* ---------------------------------------------------------------------
\* the CRL ids the classes of the build of task p resolved to
SignedIds(p) ==
  {bld[p].crlConfig.IssuerIDCRLMap[cls[1]] : cls \in bld[p].classes}

\* C21: a successful non-legacy build stores, for every CRL id it signs, a CRL
\* whose Number is the CRLNumberMap value persisted before the build (1 for an
\* id minted in the build) and persists a value one greater; the persisted
\* CRLNumberMap of an id never decreases.
C21_NumberAllocation ==
  [][/\ \A p \in Procs : PersistsIndex(p) =>
          \A id \in SignedIds(p) :
            /\ id \in DOMAIN crls'
            /\ crls'[id].number = (IF id \in DOMAIN localCRL.CRLNumberMap
                                   THEN localCRL.CRLNumberMap[id] ELSE 1)
            /\ id \in DOMAIN localCRL'.CRLNumberMap
            /\ localCRL'.CRLNumberMap[id] = crls'[id].number + 1
     /\ \A id \in DOMAIN localCRL.CRLNumberMap :
          /\ id \in DOMAIN localCRL'.CRLNumberMap
          /\ localCRL'.CRLNumberMap[id] >= localCRL.CRLNumberMap[id]]_vars

\* a second successful build signed the CRL of i1 with the number 2
C21_Witness ==
  \E p \in Procs :
    /\ BuiltBy(p)
    /\ \E id \in SignedIds(p) :
         /\ id \in DOMAIN crls /\ crls[id].number = 2
         /\ localCRL.CRLNumberMap[id] = 3

\* ---------------------------------------------------------------------
\* ---- the scheduler's check under every kind of configuration, on an active
\* node or a standby, on a fresh mount or after one build
CheckConfigs ==
  {Cfg(FALSE, TRUE), Cfg(TRUE, TRUE), Cfg(FALSE, FALSE),
   [Cfg(FALSE, TRUE) EXCEPT !.Expiry = 1],
   [Cfg(FALSE, TRUE) EXCEPT !.Expiry = 1, !.Grace = -1]}

InitCheck ==
  /\ InitBuilder
  /\ stCfg \in CheckConfigs
  /\ \E sb \in BOOLEAN :
       \/ InitTasks /\ InitMountWith(IssuersWith({"i1"}), {4, 5}, <<FALSE, FALSE, sb>>, EmptyMap, EmptyIndex, 0)
       \/ \E c \in CheckConfigs :
            LET b == BuiltOnce(c)
            IN /\ InitTasksWith(MapPut(EmptyMap, 1, b.put.num), b.put)
               /\ InitMountWith(IssuersWith({"i1"}), {4, 5}, <<FALSE, FALSE, sb>>, b.store, b.idx, 1)

NextCheck ==
  \/ \E p \in Procs : CfgSteps(p) \/ BuildSteps(p) \/ Return(p)
  \/ checkForAutoRebuild("p2") \/ checkForAutoRebuildBody("p2")
  \/ rebuildIfForced("p1")
  \/ requestRebuildIfActiveNode
  \/ Tick

SpecCheck == InitCheck /\ [][NextCheck]_vars

\* a step of a checkForAutoRebuild call of task p
CheckStep(p) == call'[p].op = "checkForAutoRebuild" /\ (pc'[p] # pc[p] \/ call[p] # call'[p])

\* the index has no expiration, a zero one, or one within the grace period,
\* the default period standing in for a configured one that does not parse
AboutToExpire(cfg) ==
  LET grace == IF cfg.Grace < 0 THEN defaultCrlConfig.Grace ELSE cfg.Grace
  IN \/ DOMAIN localCRL.CRLExpirationMap = {}
     \/ \E id \in DOMAIN localCRL.CRLExpirationMap :
          localCRL.CRLExpirationMap[id] = 0 \/ now > localCRL.CRLExpirationMap[id] - grace

\* checkForAutoRebuild of task p returns nil
CheckReturns(p) == pc[p] = "ca_body" /\ pc'[p] = "done" /\ result'[p] = OK

\* C22: checkForAutoRebuild never lowers the force-rebuild flag and never
\* writes storage; it leaves the flag alone when Disable is true, AutoRebuild
\* is false or the flag is 1, and otherwise raises it exactly when the index
\* has no expiration, a zero one, or one with now > next_update - grace, the
\* default grace standing in for one that does not parse, without an error.
C22_CheckRaises ==
  [][\A p \in Procs :
       /\ CheckStep(p) => (UNCHANGED storageVars /\ forceRebuild' >= forceRebuild)
       /\ (CheckReturns(p) /\ (cfgL[p].Disable \/ ~cfgL[p].AutoRebuild \/ forceRebuild = 1))
            => UNCHANGED forceRebuild
       /\ (CheckReturns(p) /\ ~cfgL[p].Disable /\ cfgL[p].AutoRebuild /\ forceRebuild = 0)
            => (forceRebuild' = 1) = AboutToExpire(cfgL[p])
       /\ (pc[p] = "ca_body" /\ cfgL[p] # CfgErr /\ failLeft' = failLeft) => (pc'[p] = "ca_body" \/ result'[p] = OK)]_vars

\* the check raised the flag for a CRL within the default grace period,
\* the configured one being unparseable
C22_Witness ==
  \E p \in Procs :
    /\ pc[p] = "done" /\ call[p].op = "checkForAutoRebuild" /\ result[p] = OK
    /\ cfgL[p].Grace < 0 /\ cfgL[p].AutoRebuild /\ ~cfgL[p].Disable
    /\ DOMAIN localCRL.CRLExpirationMap # {}
    /\ standby
    /\ forceRebuild = 1 /\ raised

\* ---------------------------------------------------------------------
\* a step of requestRebuildIfActiveNode: no task moves and no time passes
RequestStep == UNCHANGED <<taskVars, now>>

\* C23: requestRebuildIfActiveNode leaves the flag and all other state alone
\* on a performance standby or DR secondary; otherwise the flag is 1
\* afterwards whatever it was; it never waits for the build mutex or the
\* config lock and never touches storage.
C23_RequestOnActive ==
  /\ [][RequestStep =>
          /\ UNCHANGED <<storageVars, mountVars, cbM, cbC, dirty, cbConfig>>
          /\ IF standby THEN UNCHANGED <<forceRebuild, flagHist>> ELSE forceRebuild' = 1]_vars
  /\ [](ENABLED requestRebuildIfActiveNode)

\* a request raised the flag while a build held the mutex (the configuration
\* is disabled, so the scheduler's check never raises it)
C23_Witness ==
  /\ ~standby /\ stCfg.Disable
  /\ cbM # NoProc
  /\ forceRebuild = 1 /\ owed

\* ---------------------------------------------------------------------
\* task p is inside buildCRLs
InBuild(p) ==
  \/ pc[p] \in {"b_read", "b_class"}
  \/ pc[p] \in {"cfg_check", "cfg_lock", "cfg_fetch", "cfg_assign", "cfg_copy"} /\ cfgRet[p] = "b_read"

\* C24: at most one execution of buildCRLs is in progress at any time,
\* whether started through rebuild or rebuildIfForced, and while a build is
\* in progress no other task changes the index or the CRLs it read or wrote.
C24_BuildExclusion ==
  /\ [](\A p, q \in Procs : (InBuild(p) /\ InBuild(q)) => (p = q /\ cbM = p))
  /\ [][\A p \in Procs : (InBuild(p) /\ InBuild(p)') =>
          /\ UNCHANGED localCRL
          /\ crls' # crls => bld'[p] # bld[p]]_vars

\* one task is inside buildCRLs while the other waits for the mutex
C24_Witness ==
  \E p, q \in Procs :
    /\ p # q
    /\ InBuild(p) /\ pc[p] = "b_class" /\ bld[p].todo = {}
    /\ pc[q] = "db_lock"
    /\ call[p].op # call[q].op

\* ---------------------------------------------------------------------
\* task p, in rebuildIfForced, decides under the mutex whether to build
ForcedDecides(p) ==
  /\ call[p].op = "rebuildIfForced"
  /\ pc[p] = "db_clear" /\ pc'[p] # "db_clear"

\* C26: of the tasks that call rebuildIfForced after one raise of the flag,
\* the one that reads the flag as 1 under the mutex resets it and runs
\* buildCRLs with forceNew true; each build consumes the raise, and a task
\* that reads 0 (the raise being consumed) returns nil without building or
\* writing storage.
C26_OneForcedBuild ==
  [][\A p \in Procs :
       /\ (ForcedDecides(p) /\ loc[p].forceBuildFlag = 1)
            => /\ raised /\ ~raised'
               /\ forceRebuild' = 0
               /\ InBuild(p)' /\ loc'[p].myForceNew
       /\ (ForcedDecides(p) /\ loc[p].forceBuildFlag = 0)
            => /\ pc'[p] = "done" /\ result'[p] = OK
               /\ UNCHANGED <<storageVars, forceRebuild>>
       /\ (call[p].op = "rebuildIfForced" /\ pc[p] = "db_lock" /\ pc'[p] = "db_clear" /\ forceRebuild = 0)
            => ~raised]_vars

\* both tasks saw the flag raised; one has built, the other returned without
C26_Witness ==
  \E p, q \in Procs :
    /\ p # q
    /\ call[p].op = "rebuildIfForced" /\ call[q].op = "rebuildIfForced"
    /\ pc[p] = "done" /\ result[p] = Built
    /\ pc[q] = "done" /\ result[q] = OK /\ loc[q] # NoLoc /\ loc[q].forceBuildFlag = 0

\* ---------------------------------------------------------------------
\* ---- a mount whose storage has not been upgraded: no issuers, no issuers
\* config, no index and no crls/ blob; the revocation entry of serial 6, when
\* there is one, was written before CertificateIssuer existed
LegacyEntry(cert) == [k |-> "rev", bytes |-> cert, time |-> 1, utc |-> 0, issuer |-> NoIssuer]

InitLegacy ==
  /\ InitBuilder /\ InitTasks
  /\ issuers = IssuersWith({})
  /\ defaultIssuer = NoIssuer
  /\ certs = {4, 5, 6}
  /\ \E e \in {NoEntry, LegacyEntry("l6")} : revoked = [s \in Serials |-> IF s = 6 THEN e ELSE NoEntry]
  /\ crls = EmptyMap /\ legacyCRL = NoBlob /\ localCRL = EmptyIndex
  /\ stCfg \in {NoCfg, Cfg(TRUE, FALSE)} /\ stCfgVer = 0
  /\ legacy = TRUE /\ tainted = FALSE /\ standby = FALSE
  /\ now = 1 /\ minted = 0

NextLegacy ==
  \/ CfgSteps("p1") \/ BuildSteps("p1") \/ RevokeSteps("p1") \/ Return("p1")
  \/ \E s \in {4, 5} : revokeCert("p1", s, FALSE)
  \/ \E b \in BOOLEAN : rebuild("p1", b)
  \/ Tick

SpecLegacy == InitLegacy /\ [][NextLegacy]_vars

\* task p is inside buildCRLs in legacy mode
InLegacyBuild(p) == legacy /\ pc[p] \in {"b_read", "b_class"}

\* the build of task p completes a class, or returns with success
SignsClass(p) == pc[p] = "b_class" /\ pc'[p] = "b_class" /\ bld'[p].todo # bld[p].todo
BuildSucceeds(p) == pc[p] = "b_class" /\ pc'[p] = "done" /\ IsSuccess(result'[p]) /\ result'[p].built

\* what a legacy build does to the CRLs and the index
LegacyCRLOnly(p) ==
  /\ UNCHANGED <<crls, localCRL>>
  /\ SignsClass(p) => /\ legacyCRL' # NoBlob
                      /\ legacyCRL'.signer = legacyBundleShimID
                      /\ legacyCRL'.nextUpdate = now + cfgL[p].Expiry
  /\ BuildSucceeds(p) => legacyCRL' # NoBlob
  /\ legacyCRL' # legacyCRL => SignsClass(p)

\* C25 as stated: in legacy mode a build writes the signed CRL to
\* legacyCRLPath and no other storage key: no index, no crls/ blob, no
\* deletion and no revoked/ entry.
C25_AsStated ==
  [][\A p \in Procs : InLegacyBuild(p) => (LegacyCRLOnly(p) /\ UNCHANGED revoked)]_vars

\* C25: in legacy mode a build writes the signed CRL to legacyCRLPath, does
\* not persist the index, writes no crls/ blob and deletes nothing; the only
\* other key it writes is revoked/<serial> of an entry that names no existing
\* issuer and whose certificate the legacy CA issued and signed, and there it
\* changes CertificateIssuer to the legacy shim id and nothing else.
C25_LegacyFrame ==
  [][\A p \in Procs : InLegacyBuild(p) =>
       /\ LegacyCRLOnly(p)
       /\ \A s \in Serials : revoked'[s] # revoked[s] =>
            /\ revoked[s] # NoEntry
            /\ revoked[s].issuer # legacyBundleShimID
            /\ CertInfo[revoked[s].bytes].rawIssuer = CertInfo[IssuerCert[legacyBundleShimID]].subject
            /\ CertInfo[revoked[s].bytes].signer = CertInfo[IssuerCert[legacyBundleShimID]].key
            /\ revoked'[s] = [revoked[s] EXCEPT !.issuer = legacyBundleShimID]]_vars

\* a legacy build went through: the legacy CRL is written, the old entry of
\* serial 6 now names the legacy shim, and there is neither an index nor a
\* crls/ blob
C25_Witness ==
  \E p \in Procs :
    /\ legacy /\ pc[p] = "done" /\ call[p].op = "rebuild"
    /\ IsSuccess(result[p]) /\ result[p].built
    /\ legacyCRL # NoBlob
    /\ revoked[6] = [LegacyEntry("l6") EXCEPT !.issuer = legacyBundleShimID]
    /\ crls = EmptyMap /\ localCRL = EmptyIndex

\* ---------------------------------------------------------------------
\* ---- the scheduler's check after builds, while issuers come and go
NextQuiet ==
  \/ \E p \in Procs : CfgSteps(p) \/ BuildSteps(p) \/ Return(p)
  \/ rebuild("p1", FALSE)
  \/ checkForAutoRebuild("p2") \/ checkForAutoRebuildBody("p2")
  \/ DeleteIssuer("i1") \/ AddIssuer("i3") \/ SetUsage("i3")
  \/ Tick

SpecQuiet == InitAuto /\ [][NextQuiet]_vars

\* checkForAutoRebuild of task p reads the index and returns nil, under
\* auto-rebuild with an enabled CRL and an expiry longer than the grace
\* period, the flag being 0
QuietCheck(p) ==
  /\ call[p].op = "checkForAutoRebuild"
  /\ pc[p] = "ca_body" /\ pc'[p] = "done" /\ result'[p] = OK
  /\ cfgL[p] # CfgErr /\ cfgL[p].AutoRebuild /\ ~cfgL[p].Disable
  /\ cfgL[p].Expiry > GracePeriod(cfgL[p])
  /\ forceRebuild = 0

\* no stored CRL is within the grace period of cfg
NoCRLInGrace(cfg) == \A id \in DOMAIN crls : now <= crls[id].nextUpdate - GracePeriod(cfg)

\* C27: with AutoRebuild true, Disable false and Expiry longer than the grace
\* period, a checkForAutoRebuild that runs right after a successful non-legacy
\* build, before any CRL enters its grace period, leaves the force-rebuild
\* flag at 0, whatever issuers were added, deleted or changed in usage before.
C27_Quiescence ==
  [][\A p, q \in Procs :
       (QuietCheck(p) /\ BuiltBy(q) /\ NoCRLInGrace(cfgL[p])) => forceRebuild' = 0]_vars

\* ---------------------------------------------------------------------
\* task p enters revokeCert for a serial that has a revocation entry, and no
\* storage call of this step fails
ReRevokes(p) ==
  /\ pc[p] = "idle" /\ call'[p].op = "revokeCert"
  /\ revoked[call'[p].serial] # NoEntry
  /\ failLeft' = failLeft

\* the revokeCert of task p has found the entry of its serial
OnRevokedPath(p) == call[p].op = "revokeCert" /\ loc[p] # NoLoc /\ loc[p].alreadyRevoked

\* a stored entry stays, with its certificate and its revocation times
EntriesKept ==
  \A s \in Serials : revoked[s] # NoEntry =>
    /\ revoked'[s] # NoEntry
    /\ revoked'[s].bytes = revoked[s].bytes
    /\ revoked'[s].time = revoked[s].time
    /\ revoked'[s].utc = revoked[s].utc

\* a call on the already-revoked path: the rebuild runs unless auto-rebuild is
\* on, and the response carries the stored revocation time
ReRevokeAnswers(p) ==
  /\ (OnRevokedPath(p) /\ pc[p] = "rc_cfg" /\ pc'[p] # "rc_cfg" /\ cfgL[p] # CfgErr)
       => IF cfgL[p].AutoRebuild
          THEN pc'[p] = "done" /\ result'[p].k = "resp" /\ ~result'[p].ran
          ELSE pc'[p] = "db_lock"
  /\ (OnRevokedPath(p) /\ pc[p] # "done" /\ pc'[p] = "done" /\ result'[p].k = "resp")
       => /\ result'[p].revocation_time = revoked'[call[p].serial].time
          /\ ~cfgL[p].AutoRebuild => result'[p].ran

\* C28 as stated: an entry that revokeCert has written stays when the call
\* then fails; a later revokeCert of the serial takes the already-revoked path,
\* does not rewrite the entry, rebuilds when AutoRebuild is false and returns
\* the stored revocation_time.
C28_AsStated ==
  [][/\ EntriesKept
     /\ \A p \in Procs :
          /\ ReRevokes(p) => (OnRevokedPath(p)' /\ pc'[p] \notin {"done", "rc_put"})
          /\ OnRevokedPath(p) => UNCHANGED revoked
          /\ ReRevokeAnswers(p)]_vars

\* C28: the same, for a later revokeCert that gets past the checks made before
\* the entry is read: the mount is not tainted and the serial is not the
\* serial of an issuer at that time; the build of the call may fill in
\* CertificateIssuer of entries, and changes nothing else in them.
C28_DurableRevocation ==
  [][/\ EntriesKept
     /\ \A p \in Procs :
          /\ (ReRevokes(p) /\ ~tainted /\ ~IsIssuerSerial(call'[p].input, Range(ListedIssuers)))
               => (OnRevokedPath(p)' /\ pc'[p] \notin {"done", "rc_put"})
          /\ (OnRevokedPath(p) /\ pc[p] # "b_read") => UNCHANGED revoked
          /\ ReRevokeAnswers(p)]_vars

\* revokeCert stored the entry of serial 6 and failed; after the clock moved a
\* second revokeCert found the entry, rebuilt the CRL and returned the stored
\* time
C28_Witness ==
  \E p \in Procs :
    /\ pc[p] = "done" /\ OnRevokedPath(p) /\ call[p].serial = 6
    /\ opsLeft = MaxOps - 2 /\ failLeft = MaxFail - 1
    /\ result[p].k = "resp" /\ result[p].ran /\ result[p].built
    /\ result[p].revocation_time = revoked[6].time
    /\ revoked[6].time < now

\* ---------------------------------------------------------------------
\* ---- builds from an empty index while issuers are added and deleted and
\* change their CRLSigning usage and their KeyID
NextClasses ==
  \/ CfgSteps("p1") \/ BuildSteps("p1") \/ Return("p1")
  \/ rebuild("p1", FALSE)
  \/ \E i \in {"i1", "i2"} : SetKey(i)
  \/ SetUsage("i2")
  \/ DeleteIssuer("i1") \/ AddIssuer("i1")

SpecClasses == InitIssuers /\ [][NextClasses]_vars

\* the classes the build of task p has signed so far, and the CRL id of each
SignedClasses(p) == IF bld[p] = NoLoc THEN {} ELSE bld[p].classes \ bld[p].todo
IdOfClass(p, cls) == bld[p].crlConfig.IssuerIDCRLMap[cls[1]]

\* the build of task p stores a crls/ blob in this step
PutsCRL(p) == pc[p] = "b_class" /\ lastPut' # lastPut

====
